---- MODULE Spec2Model ----
(***************************************************************************)
(* Model of lol-wiki-parser (src/main.py): the listing crawl                *)
(* (parse_champion_entrys), the semaphore-gated detail crawls               *)
(* (parse_champion_stats) fanned out by asyncio.gather in main, and the     *)
(* regular-expression field extraction of parse_champion_stats.             *)
(*                                                                         *)
(* Coroutine 0 is the listing crawl; coroutine i >= 1 is the detail crawl   *)
(* of the i-th stub handed to gather.  One action is one resumption of a    *)
(* coroutine: the code between two awaits.                                  *)
(***************************************************************************)
EXTENDS Integers, Sequences, FiniteSets, TLC

VARIABLES
    env,                        \* ENV: the two settings main reads for the crawl
    mainPc,                     \* position of main()
    pc,                         \* position of each coroutine (0 = listing crawl)
    attempt,                    \* tenacity attempt_number while a coroutine is in its retry loop
    exc,                        \* the exception propagating out of each coroutine
    openPages,                  \* the open pages: <<coroutine, page>> for each get_page() block entered
    table_root,                 \* roster table read by the listing crawl
    champion_listing_results,   \* stubs returned by parse_champion_entrys
    sem,                        \* asyncio.Semaphore: free permits
    waiters,                    \* asyncio.Semaphore: FIFO of blocked acquirers
    details_root,               \* attribute panel read by each detail crawl
    result,                     \* ChampionStats returned by each detail crawl
    champion_detailss,          \* what gather returned
    persisted,                  \* object handed to minio_put_object_in_json
    runError,                   \* exception that left main()
    finished,                   \* detail crawls that returned a record, in order of return
    els,                        \* extraction: observations of details_root, document order
    elIdx,                      \* extraction: index of the next observation
    champion_stats,             \* extraction: the record being filled
    warnings                    \* extraction: logger.warning calls so far

pipeVars == <<env, mainPc, pc, attempt, exc, openPages, table_root,
              champion_listing_results, sem, waiters, details_root, result,
              champion_detailss, persisted, runError, finished>>
exVars == <<els, elIdx, champion_stats, warnings>>
vars == <<env, mainPc, pc, attempt, exc, openPages, table_root,
          champion_listing_results, sem, waiters, details_root, result,
          champion_detailss, persisted, runError, finished, els, elIdx, champion_stats, warnings>>

---------------------------------------------------------------------------
(* Bounds of the model *)

\* rows of the roster table
MaxRows == 3
\* largest CHAMPION_DETAILS_MAX_NUM_CONCURRENT_PARSERS tried
MaxConc == 2
\* largest MAX_NUM_CHAMPIONS tried
MaxCap == 2
\* rows of one table that may lack a required part
MaxDefects == 1

\* stop_after_attempt(3)
MaxAttempts == 3

\* Python's None for a str-typed value
None == "<None>"

Min(a, b) == IF a < b THEN a ELSE b
Max(a, b) == IF a > b THEN a ELSE b

Listing == 0
Details == 1..MaxRows
Coroutines == 0..MaxRows

---------------------------------------------------------------------------
(* Exceptions *)

\* no exception
NoExc == [who |-> -1, attempt |-> 0, op |-> "none"]
\* the exception raised by operation op in attempt k of coroutine i (k = 0:
\* outside the retry loop; for the row loop, k is the row)
Exc(i, k, op) == [who |-> i, attempt |-> k, op |-> op]

---------------------------------------------------------------------------
(* The roster page *)

LOL_WIKI_BASE_URL == "https://leagueoflegends.fandom.com"

\* entity of the r-th roster row
RosterNames == <<"Aatrox", "Ahri", "Akali", "Alistar", "Ambessa">>

\* a well-formed row: td[1] with data-sort-value and an anchor with href, td[4]
GoodRow(n) ==
    [td1 |-> TRUE, sort_value |-> n, td4 |-> TRUE, text4 |-> "V14.1",
     anchor |-> TRUE, href |-> "/wiki/" \o n]

\* the rows that lack one required part
DefectRows(n) ==
    { [GoodRow(n) EXCEPT !.td1 = FALSE, !.anchor = FALSE],
      [GoodRow(n) EXCEPT !.sort_value = None],
      [GoodRow(n) EXCEPT !.td4 = FALSE],
      [GoodRow(n) EXCEPT !.anchor = FALSE],
      [GoodRow(n) EXCEPT !.href = None] }

\* what row r of the table may be: row r is about entity r
RowChoices(r) == {GoodRow(RosterNames[r])} \cup DefectRows(RosterNames[r])

NumDefects(t) == Cardinality({r \in 1..Len(t) : t[r] # GoodRow(RosterNames[r])})

TablesOfLen(n) ==
    { t \in [1..n -> UNION {RowChoices(r) : r \in 1..n}] :
        /\ \A r \in 1..n : t[r] \in RowChoices(r)
        /\ NumDefects(t) <= MaxDefects }

\* the tables the roster page may show
Tables == UNION {TablesOfLen(n) : n \in 0..MaxRows}

ChampionEntry(name, last_changed_patch, stats_url) ==
    [name |-> name, last_changed_patch |-> last_changed_patch, stats_url |-> stats_url]

\* one iteration of the row loop: the exception it raises, or "none"
RowError(row) ==
    IF ~row.td1 THEN "IndexError"
    ELSE IF ~row.td4 THEN "IndexError"
    ELSE IF ~row.anchor THEN "IndexError"
    ELSE IF row.href = None THEN "TypeError"
    ELSE "none"

RowEntry(row) ==
    ChampionEntry(row.sort_value, row.text4, <<LOL_WIKI_BASE_URL, row.href>>)

\* index of the first row whose iteration raises, 0 if none does
FirstBadRow(t) ==
    IF \E r \in 1..Len(t) : RowError(t[r]) # "none"
    THEN CHOOSE r \in 1..Len(t) :
            /\ RowError(t[r]) # "none"
            /\ \A q \in 1..(r - 1) : RowError(t[q]) = "none"
    ELSE 0

\* a row loop that stops at the first row that raises and returns the stubs so far
ParseRowsLenient(t) ==
    LET bad == FirstBadRow(t)
        n == IF bad = 0 THEN Len(t) ELSE bad - 1
    IN  [ok |-> TRUE, err |-> NoExc, entrys |-> [r \in 1..n |-> RowEntry(t[r])]]

\* the row loop of parse_champion_entrys
ParseRows(t) ==
    LET bad == FirstBadRow(t) IN
    IF bad # 0
    THEN [ok |-> FALSE, err |-> Exc(Listing, bad, RowError(t[bad])), entrys |-> <<>>]
    ELSE [ok |-> TRUE, err |-> NoExc, entrys |-> [r \in 1..Len(t) |-> RowEntry(t[r])]]

---------------------------------------------------------------------------
(* main: settings, slicing, zip *)

\* env.MAX_NUM_CHAMPIONS is <<>> for None, <<m>> for the integer m
CapChoices == {<<>>} \cup {<<m>> : m \in (-1)..MaxCap}

\* xs[:cap]
SliceTo(xs, cap) ==
    IF cap = <<>> THEN xs
    ELSE IF cap[1] >= 0 THEN SubSeq(xs, 1, Min(cap[1], Len(xs)))
    ELSE SubSeq(xs, 1, Max(Len(xs) + cap[1], 0))

\* zip(xs, ys) as the list of {"listing_result", "details"} objects
Zip(xs, ys) ==
    [k \in 1..Min(Len(xs), Len(ys)) |-> [listing_result |-> xs[k], details |-> ys[k]]]

\* the coroutines gather was given
Created == {i \in Details : pc[i] # "none"}

---------------------------------------------------------------------------
(* Text: a str is the sequence of its characters *)

\* Python's None for a field or group whose value is a str
NoneText == <<None>>

UpperCase == <<"A","B","C","D","E","F","G","H","I","J","K","L","M",
               "N","O","P","Q","R","S","T","U","V","W","X","Y","Z">>
LowerCase == <<"a","b","c","d","e","f","g","h","i","j","k","l","m",
               "n","o","p","q","r","s","t","u","v","w","x","y","z">>
Digits == {"0","1","2","3","4","5","6","7","8","9"}
Letters == {UpperCase[k] : k \in 1..26} \cup {LowerCase[k] : k \in 1..26}
Whitespace == {" ", "\n", "\t"}

\* re.IGNORECASE: characters are compared by their lower-case form
ToLower(c) ==
    IF \E k \in 1..26 : UpperCase[k] = c
    THEN LowerCase[CHOOSE k \in 1..26 : UpperCase[k] = c]
    ELSE c

\* the character classes of the patterns: [\d.]  [ a-zA-Z]  [\+\-]
InClass(c, cls) ==
    CASE cls = "digitdot" -> c \in Digits \cup {"."}
      [] cls = "alphasp"  -> c \in Letters \cup {" "}
      [] cls = "sign"     -> c \in {"+", "-"}

\* s.strip()
RECURSIVE LStrip(_)
LStrip(s) == IF s # <<>> /\ Head(s) \in Whitespace THEN LStrip(Tail(s)) ELSE s
RECURSIVE RStrip(_)
RStrip(s) ==
    IF s # <<>> /\ s[Len(s)] \in Whitespace THEN RStrip(SubSeq(s, 1, Len(s) - 1)) ELSE s
Strip(s) == RStrip(LStrip(s))

\* " ".join(s.strip() for s in nodes if s.strip() != "")
RECURSIVE JoinStripped(_)
JoinStripped(nodes) ==
    IF nodes = <<>> THEN <<>>
    ELSE LET h == Strip(Head(nodes))
             r == JoinStripped(Tail(nodes))
         IN  IF h = <<>> THEN r
             ELSE IF r = <<>> THEN h
             ELSE h \o <<" ">> \o r

---------------------------------------------------------------------------
(* Regular expressions: a pattern is a sequence of elements *)

Chr(c) == [k |-> "chr", c |-> c]               \* a literal character
Dot == [k |-> "dot"]                           \* .
One(cls) == [k |-> "one", cls |-> cls]         \* [...]
Rep(cls, min) == [k |-> "rep", cls |-> cls, min |-> min]   \* [...]+ and [...]*
Open(g) == [k |-> "open", g |-> g]             \* (?P<g>
Close(g) == [k |-> "close", g |-> g]           \* ) of (?P<g>
Opt(sub) == [k |-> "opt", sub |-> sub]         \* (...)?
Alt(a, b) == [k |-> "alt", a |-> a, b |-> b]   \* a|b
Lit(s) == [k \in 1..Len(s) |-> Chr(s[k])]      \* a run of literal characters

NoMatch == [ok |-> FALSE, caps |-> <<>>]

\* length of the longest run of cls characters of text from pos on
RECURSIVE RunLen(_, _, _)
RunLen(text, pos, cls) ==
    IF pos <= Len(text) /\ InClass(text[pos], cls)
    THEN 1 + RunLen(text, pos + 1, cls)
    ELSE 0

\* the backtracking matcher: the first match in the order the re module tries
\* them (greedy repetition, optional group taken first, alternatives left to right)
RECURSIVE MatchFrom(_, _, _, _, _)
RECURSIVE TryRep(_, _, _, _, _, _, _)
MatchFrom(p, text, pos, caps, starts) ==
    IF p = <<>> THEN [ok |-> TRUE, caps |-> caps]
    ELSE
    LET e == Head(p)
        rest == Tail(p)
    IN  CASE e.k = "chr" ->
                IF pos <= Len(text) /\ ToLower(text[pos]) = ToLower(e.c)
                THEN MatchFrom(rest, text, pos + 1, caps, starts)
                ELSE NoMatch
          [] e.k = "dot" ->
                IF pos <= Len(text) /\ text[pos] # "\n"
                THEN MatchFrom(rest, text, pos + 1, caps, starts)
                ELSE NoMatch
          [] e.k = "one" ->
                IF pos <= Len(text) /\ InClass(text[pos], e.cls)
                THEN MatchFrom(rest, text, pos + 1, caps, starts)
                ELSE NoMatch
          [] e.k = "rep" ->
                TryRep(rest, text, pos, caps, starts, RunLen(text, pos, e.cls), e.min)
          [] e.k = "open" ->
                MatchFrom(rest, text, pos, caps, [starts EXCEPT ![e.g] = pos])
          [] e.k = "close" ->
                MatchFrom(rest, text, pos,
                          [caps EXCEPT ![e.g] = SubSeq(text, starts[e.g], pos - 1)], starts)
          [] e.k = "opt" ->
                LET taken == MatchFrom(e.sub \o rest, text, pos, caps, starts)
                IN  IF taken.ok THEN taken ELSE MatchFrom(rest, text, pos, caps, starts)
          [] e.k = "alt" ->
                LET left == MatchFrom(e.a \o rest, text, pos, caps, starts)
                IN  IF left.ok THEN left ELSE MatchFrom(e.b \o rest, text, pos, caps, starts)
TryRep(rest, text, pos, caps, starts, n, min) ==
    IF n < min THEN NoMatch
    ELSE LET r == MatchFrom(rest, text, pos + n, caps, starts)
         IN  IF r.ok THEN r ELSE TryRep(rest, text, pos, caps, starts, n - 1, min)

\* regex.match(text): anchored at the start of text, not at its end
ReMatch(regex, text) ==
    MatchFrom(regex.pat, text, 1, [g \in regex.groups |-> NoneText], [g \in regex.groups |-> 0])

---------------------------------------------------------------------------
(* The patterns of src/main.py, all compiled with re.IGNORECASE *)

\* the health pattern with the growth clause not optional
HEALTH_REGEX_GrowthRequired ==
    [groups |-> {"health_base", "health_growth"},
     pat |-> Lit(<<"H","e","a","l","t","h"," ">>)
             \o <<Open("health_base"), Rep("digitdot", 1), Close("health_base")>>
             \o Lit(<<" ","(","+"," ">>)
             \o <<Open("health_growth"), Rep("digitdot", 1), Close("health_growth")>>
             \o Lit(<<")">>)]

\* Health (?P<health_base>[\d.]+)( \(\+ (?P<health_growth>[\d.]+)\))?
HEALTH_REGEX ==
    [groups |-> {"health_base", "health_growth"},
     pat |-> Lit(<<"H","e","a","l","t","h"," ">>)
             \o <<Open("health_base"), Rep("digitdot", 1), Close("health_base"), Opt(Lit(<<" ","(","+"," ">>)
             \o <<Open("health_growth"), Rep("digitdot", 1), Close("health_growth")>>
             \o Lit(<<")">>))>>]

\* (?P<resource_name>[ a-zA-Z]+) (?P<resource_base>N/A|[\d.]+)( \(\+ (?P<resource_growth>[\d.]+)\))?
RESOURCE_REGEX ==
    [groups |-> {"resource_name", "resource_base", "resource_growth"},
     pat |-> <<Open("resource_name"), Rep("alphasp", 1), Close("resource_name")>>
             \o Lit(<<" ">>)
             \o <<Open("resource_base"), Alt(Lit(<<"N","/","A">>), <<Rep("digitdot", 1)>>), Close("resource_base"), Opt(Lit(<<" ","(","+"," ">>)
             \o <<Open("resource_growth"), Rep("digitdot", 1), Close("resource_growth")>>
             \o Lit(<<")">>))>>]

\* Health regen. \(per 5s\) (?P<health_regen_base>[\d.]+)( \(\+ (?P<health_regen_growth>[\d.]+)\))?
HEALTH_REGEN_REGEX ==
    [groups |-> {"health_regen_base", "health_regen_growth"},
     pat |-> Lit(<<"H","e","a","l","t","h"," ","r","e","g","e","n">>)
             \o <<Dot>>
             \o Lit(<<" ","(","p","e","r"," ","5","s",")"," ">>)
             \o <<Open("health_regen_base"), Rep("digitdot", 1), Close("health_regen_base"), Opt(Lit(<<" ","(","+"," ">>)
             \o <<Open("health_regen_growth"), Rep("digitdot", 1), Close("health_regen_growth")>>
             \o Lit(<<")">>))>>]

\* [ a-zA-Z]* regen.( \(per 5s\))? (?P<resource_regen_base>N/A|[\d.]+)( \(\+ (?P<resource_regen_growth>[\d.]+)\))?
RESOURCE_REGEN_REGEX ==
    [groups |-> {"resource_regen_base", "resource_regen_growth"},
     pat |-> <<Rep("alphasp", 0)>>
             \o Lit(<<" ","r","e","g","e","n">>)
             \o <<Dot, Opt(Lit(<<" ","(","p","e","r"," ","5","s",")">>))>>
             \o Lit(<<" ">>)
             \o <<Open("resource_regen_base"), Alt(Lit(<<"N","/","A">>), <<Rep("digitdot", 1)>>), Close("resource_regen_base"), Opt(Lit(<<" ","(","+"," ">>)
             \o <<Open("resource_regen_growth"), Rep("digitdot", 1), Close("resource_regen_growth")>>
             \o Lit(<<")">>))>>]

\* Armor (?P<armor_base>[\d.]+)( \(\+ (?P<armor_growth>[\d.]+)\))?
ARMOR_REGEX ==
    [groups |-> {"armor_base", "armor_growth"},
     pat |-> Lit(<<"A","r","m","o","r"," ">>)
             \o <<Open("armor_base"), Rep("digitdot", 1), Close("armor_base"), Opt(Lit(<<" ","(","+"," ">>)
             \o <<Open("armor_growth"), Rep("digitdot", 1), Close("armor_growth")>>
             \o Lit(<<")">>))>>]

\* Attack damage (?P<attack_base>[\d.]+)( \(\+ (?P<attack_growth>[\d.]+)\))?
ATTACK_REGEX ==
    [groups |-> {"attack_base", "attack_growth"},
     pat |-> Lit(<<"A","t","t","a","c","k"," ","d","a","m","a","g","e"," ">>)
             \o <<Open("attack_base"), Rep("digitdot", 1), Close("attack_base"), Opt(Lit(<<" ","(","+"," ">>)
             \o <<Open("attack_growth"), Rep("digitdot", 1), Close("attack_growth")>>
             \o Lit(<<")">>))>>]

\* Magic resist. (?P<magic_resist_base>[\d.]+)( \(\+ (?P<magic_resist_growth>[\d.]+)\))?
MAGIC_RESIST_REGEX ==
    [groups |-> {"magic_resist_base", "magic_resist_growth"},
     pat |-> Lit(<<"M","a","g","i","c"," ","r","e","s","i","s","t">>)
             \o <<Dot>>
             \o Lit(<<" ">>)
             \o <<Open("magic_resist_base"), Rep("digitdot", 1), Close("magic_resist_base"), Opt(Lit(<<" ","(","+"," ">>)
             \o <<Open("magic_resist_growth"), Rep("digitdot", 1), Close("magic_resist_growth")>>
             \o Lit(<<")">>))>>]

\* Crit. damage (?P<crit_damage_percentage>[\d.]+)%
CRIT_DAMAGE_PERCENTAGE_REGEX ==
    [groups |-> {"crit_damage_percentage"},
     pat |-> Lit(<<"C","r","i","t">>)
             \o <<Dot>>
             \o Lit(<<" ","d","a","m","a","g","e"," ">>)
             \o <<Open("crit_damage_percentage"), Rep("digitdot", 1), Close("crit_damage_percentage")>>
             \o Lit(<<"%">>)]

\* Move. speed (?P<movement_speed>[\d.]+)
MOVEMENT_SPEED_REGEX ==
    [groups |-> {"movement_speed"},
     pat |-> Lit(<<"M","o","v","e">>)
             \o <<Dot>>
             \o Lit(<<" ","s","p","e","e","d"," ">>)
             \o <<Open("movement_speed"), Rep("digitdot", 1), Close("movement_speed")>>]

\* Attack range (?P<attack_range>[\d.]+)
ATTACK_RANGE_REGEX ==
    [groups |-> {"attack_range"},
     pat |-> Lit(<<"A","t","t","a","c","k"," ","r","a","n","g","e"," ">>)
             \o <<Open("attack_range"), Rep("digitdot", 1), Close("attack_range")>>]

\* Base AS (?P<attack_speed_base>[\d.]+)
ATTACK_SPEED_BASE_REGEX ==
    [groups |-> {"attack_speed_base"},
     pat |-> Lit(<<"B","a","s","e"," ","A","S"," ">>)
             \o <<Open("attack_speed_base"), Rep("digitdot", 1), Close("attack_speed_base")>>]

\* Attack windup (?P<attack_windup_percentage>[\d.]+)%
ATTACK_WINDUP_PERCENTAGE_REGEX ==
    [groups |-> {"attack_windup_percentage"},
     pat |-> Lit(<<"A","t","t","a","c","k"," ","w","i","n","d","u","p"," ">>)
             \o <<Open("attack_windup_percentage"), Rep("digitdot", 1), Close("attack_windup_percentage")>>
             \o Lit(<<"%">>)]

\* AS ratio (?P<attack_speed_ratio>[\d.]+)
ATTACK_SPEED_RATIO_REGEX ==
    [groups |-> {"attack_speed_ratio"},
     pat |-> Lit(<<"A","S"," ","r","a","t","i","o"," ">>)
             \o <<Open("attack_speed_ratio"), Rep("digitdot", 1), Close("attack_speed_ratio")>>]

\* Bonus AS (?P<attack_speed_bonus_percentage>[\d.]+) %
ATTACK_SPEED_BONUS_PERCENTAGE_REGEX ==
    [groups |-> {"attack_speed_bonus_percentage"},
     pat |-> Lit(<<"B","o","n","u","s"," ","A","S"," ">>)
             \o <<Open("attack_speed_bonus_percentage"), Rep("digitdot", 1), Close("attack_speed_bonus_percentage")>>
             \o Lit(<<" ","%">>)]

\* Missile speed (?P<missile_speed>[\d.]+)
MISSILE_SPEED_REGEX ==
    [groups |-> {"missile_speed"},
     pat |-> Lit(<<"M","i","s","s","i","l","e"," ","s","p","e","e","d"," ">>)
             \o <<Open("missile_speed"), Rep("digitdot", 1), Close("missile_speed")>>]

\* Gameplay radius (?P<gameplay_radius>[\d.]+)
GAMEPLAY_RADIUS_REGEX ==
    [groups |-> {"gameplay_radius"},
     pat |-> Lit(<<"G","a","m","e","p","l","a","y"," ","r","a","d","i","u","s"," ">>)
             \o <<Open("gameplay_radius"), Rep("digitdot", 1), Close("gameplay_radius")>>]

\* Selection radius (?P<selection_radius>[\d.]+)
SELECTION_RADIUS_REGEX ==
    [groups |-> {"selection_radius"},
     pat |-> Lit(<<"S","e","l","e","c","t","i","o","n"," ","r","a","d","i","u","s"," ">>)
             \o <<Open("selection_radius"), Rep("digitdot", 1), Close("selection_radius")>>]

\* Pathing radius (?P<pathing_radius>[\d.]+)
PATHING_RADIUS_REGEX ==
    [groups |-> {"pathing_radius"},
     pat |-> Lit(<<"P","a","t","h","i","n","g"," ","r","a","d","i","u","s"," ">>)
             \o <<Open("pathing_radius"), Rep("digitdot", 1), Close("pathing_radius")>>]

\* Acq. radius (?P<acquisition_radius>[\d.]+)
ACQUISITION_RADIUS_REGEX ==
    [groups |-> {"acquisition_radius"},
     pat |-> Lit(<<"A","c","q">>)
             \o <<Dot>>
             \o Lit(<<" ","r","a","d","i","u","s"," ">>)
             \o <<Open("acquisition_radius"), Rep("digitdot", 1), Close("acquisition_radius")>>]

\* Damage Dealt (?P<aram_damage_dealt_bonus_percentage>[\+\-][\d.]+)%
ARAM_DAMEGE_DEALT_BONUS_PERCENTAGE_REGEX ==
    [groups |-> {"aram_damage_dealt_bonus_percentage"},
     pat |-> Lit(<<"D","a","m","a","g","e"," ","D","e","a","l","t"," ">>)
             \o <<Open("aram_damage_dealt_bonus_percentage"), One("sign"), Rep("digitdot", 1), Close("aram_damage_dealt_bonus_percentage")>>
             \o Lit(<<"%">>)]

\* Damage Received (?P<aram_damage_taken_bonus_percentage>[\+\-][\d.]+)%
ARAM_DAMEGE_TAKEN_BONUS_PERCENTAGE_REGEX ==
    [groups |-> {"aram_damage_taken_bonus_percentage"},
     pat |-> Lit(<<"D","a","m","a","g","e"," ","R","e","c","e","i","v","e","d"," ">>)
             \o <<Open("aram_damage_taken_bonus_percentage"), One("sign"), Rep("digitdot", 1), Close("aram_damage_taken_bonus_percentage")>>
             \o Lit(<<"%">>)]

\* Total Attack Speed (?P<aram_attack_speed_bonus_percentage>[\+\-][\d.]+)%
ARAM_ATTACK_SPEED_BONUS_PERCENTAGE_REGEX ==
    [groups |-> {"aram_attack_speed_bonus_percentage"},
     pat |-> Lit(<<"T","o","t","a","l"," ","A","t","t","a","c","k"," ","S","p","e","e","d"," ">>)
             \o <<Open("aram_attack_speed_bonus_percentage"), One("sign"), Rep("digitdot", 1), Close("aram_attack_speed_bonus_percentage")>>
             \o Lit(<<"%">>)]

\* Ability Haste (?P<aram_ability_haste_bonus>[\+\-][\d.]+)
ARAM_ABILITY_HASTE_BONUS_REGEX ==
    [groups |-> {"aram_ability_haste_bonus"},
     pat |-> Lit(<<"A","b","i","l","i","t","y"," ","H","a","s","t","e"," ">>)
             \o <<Open("aram_ability_haste_bonus"), One("sign"), Rep("digitdot", 1), Close("aram_ability_haste_bonus")>>]

\* Energy Regen (?P<aram_energy_regen_bonus_percentage>[\+\-][\d.]+)%
ARAM_ENERGY_REGEN_BONUS_PERCENTAGE_REGEX ==
    [groups |-> {"aram_energy_regen_bonus_percentage"},
     pat |-> Lit(<<"E","n","e","r","g","y"," ","R","e","g","e","n"," ">>)
             \o <<Open("aram_energy_regen_bonus_percentage"), One("sign"), Rep("digitdot", 1), Close("aram_energy_regen_bonus_percentage")>>
             \o Lit(<<"%">>)]

\* Healing (?P<aram_healing_bonus_percentage>[\+\-][\d.]+)%
ARAM_HEALING_BONUS_PERCENTAGE_REGEX ==
    [groups |-> {"aram_healing_bonus_percentage"},
     pat |-> Lit(<<"H","e","a","l","i","n","g"," ">>)
             \o <<Open("aram_healing_bonus_percentage"), One("sign"), Rep("digitdot", 1), Close("aram_healing_bonus_percentage")>>
             \o Lit(<<"%">>)]

\* Shielding (?P<aram_shielding_bonus_percentage>[\+\-][\d.]+)%
ARAM_SHIELDING_BONUS_PERCENTAGE_REGEX ==
    [groups |-> {"aram_shielding_bonus_percentage"},
     pat |-> Lit(<<"S","h","i","e","l","d","i","n","g"," ">>)
             \o <<Open("aram_shielding_bonus_percentage"), One("sign"), Rep("digitdot", 1), Close("aram_shielding_bonus_percentage")>>
             \o Lit(<<"%">>)]

\* Tenacity & Slow Resist (?P<aram_tenacity_bonus_percentage>[\+\-][\d.]+)%
ARAM_TENACITY_BONUS_PERCENTAGE_REGEX ==
    [groups |-> {"aram_tenacity_bonus_percentage"},
     pat |-> Lit(<<"T","e","n","a","c","i","t","y"," ","&"," ","S","l","o","w"," ","R","e","s","i","s","t"," ">>)
             \o <<Open("aram_tenacity_bonus_percentage"), One("sign"), Rep("digitdot", 1), Close("aram_tenacity_bonus_percentage")>>
             \o Lit(<<"%">>)]

---------------------------------------------------------------------------
(* ChampionStats and the labels of the match statement *)

\* the str | None fields of ChampionStats
FieldNames ==
    {"health_base", "health_growth", "resource_name", "resource_base",
     "resource_growth", "health_regen_base", "health_regen_growth",
     "resource_regen_base", "resource_regen_growth", "armor_base", "armor_growth",
     "attack_base", "attack_growth", "magic_resist_base", "magic_resist_growth",
     "crit_damage_percentage", "movement_speed", "attack_range", "attack_speed_base",
     "attack_windup_percentage", "attack_speed_ratio", "attack_speed_bonus_percentage",
     "missile_speed", "gameplay_radius", "selection_radius", "pathing_radius",
     "acquisition_radius", "aram_damage_dealt_bonus_percentage",
     "aram_damage_taken_bonus_percentage", "aram_attack_speed_bonus_percentage",
     "aram_ability_haste_bonus", "aram_energy_regen_bonus_percentage",
     "aram_healing_bonus_percentage", "aram_shielding_bonus_percentage",
     "aram_tenacity_bonus_percentage"}

Label_health == <<"h","e","a","l","t","h">>
Label_resource == <<"r","e","s","o","u","r","c","e">>
Label_health_regen == <<"h","e","a","l","t","h"," ","r","e","g","e","n">>
Label_resource_regen == <<"r","e","s","o","u","r","c","e"," ","r","e","g","e","n">>
Label_armor == <<"a","r","m","o","r">>
Label_attack_damage == <<"a","t","t","a","c","k"," ","d","a","m","a","g","e">>
Label_mr == <<"m","r">>
Label_critical_damage == <<"c","r","i","t","i","c","a","l"," ","d","a","m","a","g","e">>
Label_ms == <<"m","s">>
Label_range == <<"r","a","n","g","e">>
Label_attack_speed == <<"a","t","t","a","c","k"," ","s","p","e","e","d">>
Label_windup == <<"w","i","n","d","u","p">>
Label_as_ratio == <<"a","s"," ","r","a","t","i","o">>
Label_bonus_as == <<"b","o","n","u","s"," ","a","s">>
Label_missile_speed == <<"m","i","s","s","i","l","e"," ","s","p","e","e","d">>
Label_gameplay_radius == <<"g","a","m","e","p","l","a","y"," ","r","a","d","i","u","s">>
Label_selection_radius == <<"s","e","l","e","c","t","i","o","n"," ","r","a","d","i","u","s">>
Label_pathing_radius == <<"p","a","t","h","i","n","g"," ","r","a","d","i","u","s">>
Label_acquisition_radius == <<"a","c","q","u","i","s","i","t","i","o","n"," ","r","a","d","i","u","s">>
Label_aram_dmg_dealt == <<"a","r","a","m","-","d","m","g","-","d","e","a","l","t">>
Label_aram_dmg_taken == <<"a","r","a","m","-","d","m","g","-","t","a","k","e","n">>
Label_aram_attack_speed == <<"a","r","a","m","_","a","t","t","a","c","k","_","s","p","e","e","d">>
Label_aram_ability_haste == <<"a","r","a","m","_","a","b","i","l","i","t","y","_","h","a","s","t","e">>
Label_aram_energy_regen == <<"a","r","a","m","_","e","n","e","r","g","y","_","r","e","g","e","n">>
Label_aram_healing == <<"a","r","a","m","-","h","e","a","l","i","n","g">>
Label_aram_shielding == <<"a","r","a","m","-","s","h","i","e","l","d","i","n","g">>
Label_aram_tenacity == <<"a","r","a","m","_","t","e","n","a","c","i","t","y">>

\* the list of ignored prefixes without its first entry
IgnoredPrefixesShort ==
    {<<"n","b","_">>, <<"o","f","a","-">>, <<"o","f","a","_">>, <<"u","r","f","-">>,
     <<"u","s","b","-">>, <<"u","s","b","_">>, <<"a","r","_">>}

\* the label prefixes that are ignored without a warning
IgnoredPrefixes ==
    {<<"n","b","-">>,
     <<"n","b","_">>,
     <<"o","f","a","-">>,
     <<"o","f","a","_">>,
     <<"u","r","f","-">>,
     <<"u","s","b","-">>,
     <<"u","s","b","_">>,
     <<"a","r","_">>}

\* a record that does not take the name it is given
ChampionStatsUnnamed(name) ==
    [f \in FieldNames \cup {"name"} |-> IF f = "name" THEN None ELSE NoneText]

\* ChampionStats(name=name): every other field None
ChampionStats(name) ==
    [f \in FieldNames \cup {"name"} |-> IF f = "name" THEN name ELSE NoneText]

\* prefix is a prefix of s: s.startswith(prefix)
StartsWith(s, prefix) ==
    Len(prefix) <= Len(s) /\ SubSeq(s, 1, Len(prefix)) = prefix

\* sub in s
Contains(s, sub) ==
    \E k \in 1..(Len(s) - Len(sub) + 1) : SubSeq(s, k, k + Len(sub) - 1) = sub

\* an assignment that rebuilds the record from the groups of the match only
AssignGroupsClearing(stats, caps) ==
    [f \in DOMAIN stats |->
        IF f \in DOMAIN caps THEN caps[f]
        ELSE IF f = "name" THEN stats[f] ELSE NoneText]

\* champion_stats.g = m.group("g") for the groups g of the match m
AssignGroups(stats, caps) ==
    [f \in DOMAIN stats |-> IF f \in DOMAIN caps THEN caps[f] ELSE stats[f]]

\* an arm that stores the raw text when the pattern does not match
PlainArmGarbage(stats, regex, text) ==
    LET m == ReMatch(regex, text)
    IN  IF m.ok THEN AssignGroups(stats, m.caps)
        ELSE [f \in DOMAIN stats |-> IF f \in regex.groups THEN text ELSE stats[f]]

\* an arm of the form: if (m := REGEX.match(text)) is not None: assign the groups
PlainArm(stats, regex, text) ==
    LET m == ReMatch(regex, text)
    IN  IF m.ok THEN AssignGroups(stats, m.caps) ELSE stats

Text_Resource == <<"R","e","s","o","u","r","c","e">>
Text_NA == <<"N","/","A">>

\* case "resource" without the test of the placeholder name
ResourceArmNoPlaceholder(stats, text) ==
    LET m == ReMatch(RESOURCE_REGEX, text)
    IN  IF m.ok THEN AssignGroups(stats, m.caps) ELSE stats

\* case "resource"
ResourceArm(stats, text) ==
    LET m == ReMatch(RESOURCE_REGEX, text)
    IN  IF m.ok /\ m.caps["resource_name"] # Text_Resource
        THEN AssignGroups(stats, m.caps)
        ELSE stats

\* case "resource regen"
ResourceRegenArm(stats, text) ==
    LET m == ReMatch(RESOURCE_REGEN_REGEX, text)
    IN  IF m.ok /\ m.caps["resource_regen_base"] # Text_NA
        THEN AssignGroups(stats, m.caps)
        ELSE stats

\* no pattern: the label has no arm with a pattern
NoRegex == [groups |-> {}, pat |-> <<>>]

\* the pattern that the arm of the match statement selected by field_name applies
RegexOf(field_name) ==
    IF field_name = Label_health THEN HEALTH_REGEX
    ELSE IF field_name = Label_resource THEN RESOURCE_REGEX
    ELSE IF field_name = Label_health_regen THEN HEALTH_REGEN_REGEX
    ELSE IF field_name = Label_resource_regen THEN RESOURCE_REGEN_REGEX
    ELSE IF field_name = Label_armor THEN ARMOR_REGEX
    ELSE IF field_name = Label_attack_damage THEN ATTACK_REGEX
    ELSE IF field_name = Label_mr THEN MAGIC_RESIST_REGEX
    ELSE IF field_name = Label_critical_damage THEN CRIT_DAMAGE_PERCENTAGE_REGEX
    ELSE IF field_name = Label_ms THEN MOVEMENT_SPEED_REGEX
    ELSE IF field_name = Label_range THEN ATTACK_RANGE_REGEX
    ELSE IF field_name = Label_attack_speed THEN ATTACK_SPEED_BASE_REGEX
    ELSE IF field_name = Label_windup THEN ATTACK_WINDUP_PERCENTAGE_REGEX
    ELSE IF field_name = Label_as_ratio THEN ATTACK_SPEED_RATIO_REGEX
    ELSE IF field_name = Label_bonus_as THEN ATTACK_SPEED_BONUS_PERCENTAGE_REGEX
    ELSE IF field_name = Label_missile_speed THEN MISSILE_SPEED_REGEX
    ELSE IF field_name = Label_gameplay_radius THEN GAMEPLAY_RADIUS_REGEX
    ELSE IF field_name = Label_selection_radius THEN SELECTION_RADIUS_REGEX
    ELSE IF Contains(field_name, Label_pathing_radius) THEN PATHING_RADIUS_REGEX
    ELSE IF field_name = Label_acquisition_radius THEN ACQUISITION_RADIUS_REGEX
    ELSE IF field_name = Label_aram_dmg_dealt THEN ARAM_DAMEGE_DEALT_BONUS_PERCENTAGE_REGEX
    ELSE IF field_name = Label_aram_dmg_taken THEN ARAM_DAMEGE_TAKEN_BONUS_PERCENTAGE_REGEX
    ELSE IF field_name = Label_aram_attack_speed THEN ARAM_ATTACK_SPEED_BONUS_PERCENTAGE_REGEX
    ELSE IF field_name = Label_aram_ability_haste THEN ARAM_ABILITY_HASTE_BONUS_REGEX
    ELSE IF field_name = Label_aram_energy_regen THEN ARAM_ENERGY_REGEN_BONUS_PERCENTAGE_REGEX
    ELSE IF field_name = Label_aram_healing THEN ARAM_HEALING_BONUS_PERCENTAGE_REGEX
    ELSE IF field_name = Label_aram_shielding THEN ARAM_SHIELDING_BONUS_PERCENTAGE_REGEX
    ELSE IF field_name = Label_aram_tenacity THEN ARAM_TENACITY_BONUS_PERCENTAGE_REGEX
    ELSE NoRegex

\* the match statement on field_name, arms in source order
MatchFieldName(stats, field_name, text) ==
    IF field_name = Label_health
        THEN [stats |-> PlainArm(stats, HEALTH_REGEX, text), warned |-> FALSE]
    ELSE IF field_name = Label_resource
        THEN [stats |-> ResourceArm(stats, text), warned |-> FALSE]
    ELSE IF field_name = Label_health_regen
        THEN [stats |-> PlainArm(stats, HEALTH_REGEN_REGEX, text), warned |-> FALSE]
    ELSE IF field_name = Label_resource_regen
        THEN [stats |-> ResourceRegenArm(stats, text), warned |-> FALSE]
    ELSE IF field_name = Label_armor
        THEN [stats |-> PlainArm(stats, ARMOR_REGEX, text), warned |-> FALSE]
    ELSE IF field_name = Label_attack_damage
        THEN [stats |-> PlainArm(stats, ATTACK_REGEX, text), warned |-> FALSE]
    ELSE IF field_name = Label_mr
        THEN [stats |-> PlainArm(stats, MAGIC_RESIST_REGEX, text), warned |-> FALSE]
    ELSE IF field_name = Label_critical_damage
        THEN [stats |-> PlainArm(stats, CRIT_DAMAGE_PERCENTAGE_REGEX, text), warned |-> FALSE]
    ELSE IF field_name = Label_ms
        THEN [stats |-> PlainArm(stats, MOVEMENT_SPEED_REGEX, text), warned |-> FALSE]
    ELSE IF field_name = Label_range
        THEN [stats |-> PlainArm(stats, ATTACK_RANGE_REGEX, text), warned |-> FALSE]
    ELSE IF field_name = Label_attack_speed
        THEN [stats |-> PlainArm(stats, ATTACK_SPEED_BASE_REGEX, text), warned |-> FALSE]
    ELSE IF field_name = Label_windup
        THEN [stats |-> PlainArm(stats, ATTACK_WINDUP_PERCENTAGE_REGEX, text), warned |-> FALSE]
    ELSE IF field_name = Label_as_ratio
        THEN [stats |-> PlainArm(stats, ATTACK_SPEED_RATIO_REGEX, text), warned |-> FALSE]
    ELSE IF field_name = Label_bonus_as
        THEN [stats |-> PlainArm(stats, ATTACK_SPEED_BONUS_PERCENTAGE_REGEX, text), warned |-> FALSE]
    ELSE IF field_name = Label_missile_speed
        THEN [stats |-> PlainArm(stats, MISSILE_SPEED_REGEX, text), warned |-> FALSE]
    ELSE IF field_name = Label_gameplay_radius
        THEN [stats |-> PlainArm(stats, GAMEPLAY_RADIUS_REGEX, text), warned |-> FALSE]
    ELSE IF field_name = Label_selection_radius
        THEN [stats |-> PlainArm(stats, SELECTION_RADIUS_REGEX, text), warned |-> FALSE]
    ELSE IF Contains(field_name, Label_pathing_radius)
        THEN [stats |-> PlainArm(stats, PATHING_RADIUS_REGEX, text), warned |-> FALSE]
    ELSE IF field_name = Label_acquisition_radius
        THEN [stats |-> PlainArm(stats, ACQUISITION_RADIUS_REGEX, text), warned |-> FALSE]
    ELSE IF field_name = Label_aram_dmg_dealt
        THEN [stats |-> PlainArm(stats, ARAM_DAMEGE_DEALT_BONUS_PERCENTAGE_REGEX, text), warned |-> FALSE]
    ELSE IF field_name = Label_aram_dmg_taken
        THEN [stats |-> PlainArm(stats, ARAM_DAMEGE_TAKEN_BONUS_PERCENTAGE_REGEX, text), warned |-> FALSE]
    ELSE IF field_name = Label_aram_attack_speed
        THEN [stats |-> PlainArm(stats, ARAM_ATTACK_SPEED_BONUS_PERCENTAGE_REGEX, text), warned |-> FALSE]
    ELSE IF field_name = Label_aram_ability_haste
        THEN [stats |-> PlainArm(stats, ARAM_ABILITY_HASTE_BONUS_REGEX, text), warned |-> FALSE]
    ELSE IF field_name = Label_aram_energy_regen
        THEN [stats |-> PlainArm(stats, ARAM_ENERGY_REGEN_BONUS_PERCENTAGE_REGEX, text), warned |-> FALSE]
    ELSE IF field_name = Label_aram_healing
        THEN [stats |-> PlainArm(stats, ARAM_HEALING_BONUS_PERCENTAGE_REGEX, text), warned |-> FALSE]
    ELSE IF field_name = Label_aram_shielding
        THEN [stats |-> PlainArm(stats, ARAM_SHIELDING_BONUS_PERCENTAGE_REGEX, text), warned |-> FALSE]
    ELSE IF field_name = Label_aram_tenacity
        THEN [stats |-> PlainArm(stats, ARAM_TENACITY_BONUS_PERCENTAGE_REGEX, text), warned |-> FALSE]
    ELSE IF \E prefix \in IgnoredPrefixes : StartsWith(field_name, prefix)
        THEN [stats |-> stats, warned |-> FALSE]
    ELSE [stats |-> stats, warned |-> TRUE]

\* an element with a data-source attribute: its label and its text nodes
El(data_source, itertext) == [data_source |-> data_source, itertext |-> itertext]

\* the flattened text of an element
TextOf(el) == JoinStripped(el.itertext)

\* one iteration of the loop over details_root.xpath("//div[@data-source]")
ProcessEl(stats, el) ==
    LET field_name == el.data_source
        text == TextOf(el)
    IN  IF text = <<>>
        THEN [stats |-> stats, warned |-> FALSE]
        ELSE MatchFieldName(stats, field_name, text)

\* the whole loop, from the record stats on
RECURSIVE ProcessAll(_, _)
ProcessAll(stats, elements) ==
    IF elements = <<>> THEN stats
    ELSE ProcessAll(ProcessEl(stats, Head(elements)).stats, Tail(elements))

\* lines 194-311 of parse_champion_stats: the record built from details_root
ExtractStats(name, elements) == ProcessAll(ChampionStats(name), elements)

---------------------------------------------------------------------------
(* Attribute-panel elements the detail pages may show *)

\* the sample elements, by name
SampleEl ==
    [
      \* data-source="health", text "Health 600 (+ 90)"
      health |->
        El(Label_health,
           <<<<"H","e","a","l","t","h">>,
             <<"6","0","0"," ","(","+"," ","9","0",")">>>>),
      \* data-source="health", text "Health 600"
      health_no_growth |->
        El(Label_health,
           <<<<"\n">>,
             <<"H","e","a","l","t","h">>,
             <<"\n">>,
             <<" ","6","0","0"," ">>>>),
      \* data-source="health", text "Health 700 (+ 85)"
      health_other |->
        El(Label_health,
           <<<<"H","e","a","l","t","h">>,
             <<"7","0","0"," ","(","+"," ","8","5",")">>>>),
      \* data-source="health", text "Health 600 (+ 90) at level 1"
      health_trailing |->
        El(Label_health,
           <<<<"H","e","a","l","t","h">>,
             <<"6","0","0"," ","(","+"," ","9","0",")"," ","a","t"," ","l","e","v","e","l"," ","1">>>>),
      \* data-source="health", text "Health 600 (+"
      health_cut |->
        El(Label_health,
           <<<<"H","e","a","l","t","h">>,
             <<"6","0","0"," ","(","+"," ">>>>),
      \* data-source="health", text "Health N/A"
      health_bad |->
        El(Label_health,
           <<<<"H","e","a","l","t","h">>,
             <<"N","/","A">>>>),
      \* data-source="health", text ""
      health_empty |->
        El(Label_health,
           <<<<"\n">>,
             <<" ">>>>),
      \* data-source="resource", text "Mana 100 (+ 10)"
      resource_mana |->
        El(Label_resource,
           <<<<"M","a","n","a">>,
             <<"1","0","0"," ","(","+"," ","1","0",")">>>>),
      \* data-source="resource", text "Energy 200"
      resource_energy |->
        El(Label_resource,
           <<<<"E","n","e","r","g","y">>,
             <<"2","0","0">>>>),
      \* data-source="resource", text "Resource N/A"
      resource_placeholder |->
        El(Label_resource,
           <<<<"R","e","s","o","u","r","c","e">>,
             <<"N","/","A">>>>),
      \* data-source="resource", text "Resource 100 (+ 10)"
      resource_placeholder_num |->
        El(Label_resource,
           <<<<"R","e","s","o","u","r","c","e">>,
             <<"1","0","0"," ","(","+"," ","1","0",")">>>>),
      \* data-source="resource", text "Mana N/A"
      resource_mana_na |->
        El(Label_resource,
           <<<<"M","a","n","a">>,
             <<"N","/","A">>>>),
      \* data-source="resource", text "resource N/A"
      resource_lower |->
        El(Label_resource,
           <<<<"r","e","s","o","u","r","c","e">>,
             <<"N","/","A">>>>),
      \* data-source="resource", text "Mana"
      resource_bad |->
        El(Label_resource,
           <<<<"M","a","n","a">>>>),
      \* data-source="health regen", text "Health regen. (per 5s) 3 (+ 0.5)"
      health_regen |->
        El(Label_health_regen,
           <<<<"H","e","a","l","t","h"," ","r","e","g","e","n","."," ","(","p","e","r"," ","5","s",")">>,
             <<"3"," ","(","+"," ","0",".","5",")">>>>),
      \* data-source="resource regen", text "Mana regen. (per 5s) 8 (+ 0.8)"
      resource_regen |->
        El(Label_resource_regen,
           <<<<"M","a","n","a"," ","r","e","g","e","n","."," ","(","p","e","r"," ","5","s",")">>,
             <<"8"," ","(","+"," ","0",".","8",")">>>>),
      \* data-source="resource regen", text "Energy regen. (per 5s) 50"
      resource_regen_no_growth |->
        El(Label_resource_regen,
           <<<<"E","n","e","r","g","y"," ","r","e","g","e","n","."," ","(","p","e","r"," ","5","s",")">>,
             <<"5","0">>>>),
      \* data-source="resource regen", text "Resource regen. N/A"
      resource_regen_placeholder |->
        El(Label_resource_regen,
           <<<<"R","e","s","o","u","r","c","e"," ","r","e","g","e","n",".">>,
             <<"N","/","A">>>>),
      \* data-source="resource regen", text "Mana regen. n/a"
      resource_regen_lower |->
        El(Label_resource_regen,
           <<<<"M","a","n","a"," ","r","e","g","e","n",".">>,
             <<"n","/","a">>>>),
      \* data-source="resource regen", text "Mana regen 8"
      resource_regen_bad |->
        El(Label_resource_regen,
           <<<<"M","a","n","a"," ","r","e","g","e","n">>,
             <<"8">>>>),
      \* data-source="armor", text "Armor 38 (+ 4.45)"
      armor |->
        El(Label_armor,
           <<<<"A","r","m","o","r">>,
             <<"3","8"," ","(","+"," ","4",".","4","5",")">>>>),
      \* data-source="attack damage", text "Attack damage 60 (+ 5)"
      attack_damage |->
        El(Label_attack_damage,
           <<<<"A","t","t","a","c","k"," ","d","a","m","a","g","e">>,
             <<"6","0"," ","(","+"," ","5",")">>>>),
      \* data-source="mr", text "Magic resist. 32 (+ 2.05)"
      mr |->
        El(Label_mr,
           <<<<"M","a","g","i","c"," ","r","e","s","i","s","t",".">>,
             <<"3","2"," ","(","+"," ","2",".","0","5",")">>>>),
      \* data-source="mr", text "Magic resist. 32"
      mr_no_growth |->
        El(Label_mr,
           <<<<"M","a","g","i","c"," ","r","e","s","i","s","t",".">>,
             <<"3","2">>>>),
      \* data-source="critical damage", text "Crit. damage 175%"
      critical_damage |->
        El(Label_critical_damage,
           <<<<"C","r","i","t","."," ","d","a","m","a","g","e">>,
             <<"1","7","5","%">>>>),
      \* data-source="critical damage", text "Crit. damage 175"
      critical_damage_bad |->
        El(Label_critical_damage,
           <<<<"C","r","i","t","."," ","d","a","m","a","g","e">>,
             <<"1","7","5">>>>),
      \* data-source="ms", text "Move. speed 345"
      ms |->
        El(Label_ms,
           <<<<"M","o","v","e","."," ","s","p","e","e","d">>,
             <<"3","4","5">>>>),
      \* data-source="range", text "Attack range 175"
      range |->
        El(Label_range,
           <<<<"A","t","t","a","c","k"," ","r","a","n","g","e">>,
             <<"1","7","5">>>>),
      \* data-source="attack speed", text "Base AS 0.651"
      attack_speed |->
        El(Label_attack_speed,
           <<<<"B","a","s","e"," ","A","S">>,
             <<"0",".","6","5","1">>>>),
      \* data-source="windup", text "Attack windup 19.737%"
      windup |->
        El(Label_windup,
           <<<<"A","t","t","a","c","k"," ","w","i","n","d","u","p">>,
             <<"1","9",".","7","3","7","%">>>>),
      \* data-source="as ratio", text "AS ratio 0.651"
      as_ratio |->
        El(Label_as_ratio,
           <<<<"A","S"," ","r","a","t","i","o">>,
             <<"0",".","6","5","1">>>>),
      \* data-source="bonus as", text "Bonus AS 0 %"
      bonus_as |->
        El(Label_bonus_as,
           <<<<"B","o","n","u","s"," ","A","S">>,
             <<"0"," ","%">>>>),
      \* data-source="bonus as", text "Bonus AS 0%"
      bonus_as_bad |->
        El(Label_bonus_as,
           <<<<"B","o","n","u","s"," ","A","S">>,
             <<"0","%">>>>),
      \* data-source="missile speed", text "Missile speed 1750"
      missile_speed |->
        El(Label_missile_speed,
           <<<<"M","i","s","s","i","l","e"," ","s","p","e","e","d">>,
             <<"1","7","5","0">>>>),
      \* data-source="gameplay radius", text "Gameplay radius 65"
      gameplay_radius |->
        El(Label_gameplay_radius,
           <<<<"G","a","m","e","p","l","a","y"," ","r","a","d","i","u","s">>,
             <<"6","5">>>>),
      \* data-source="selection radius", text "Selection radius 135"
      selection_radius |->
        El(Label_selection_radius,
           <<<<"S","e","l","e","c","t","i","o","n"," ","r","a","d","i","u","s">>,
             <<"1","3","5">>>>),
      \* data-source="pathing radius", text "Pathing radius 35"
      pathing_radius |->
        El(Label_pathing_radius,
           <<<<"P","a","t","h","i","n","g"," ","r","a","d","i","u","s">>,
             <<"3","5">>>>),
      \* data-source="x pathing radius", text "Pathing radius 30"
      pathing_radius_2 |->
        El(<<"x"," ","p","a","t","h","i","n","g"," ","r","a","d","i","u","s">>,
           <<<<"P","a","t","h","i","n","g"," ","r","a","d","i","u","s">>,
             <<"3","0">>>>),
      \* data-source="pathing radius 2", text "Pathing radius 25"
      pathing_radius_3 |->
        El(<<"p","a","t","h","i","n","g"," ","r","a","d","i","u","s"," ","2">>,
           <<<<"P","a","t","h","i","n","g"," ","r","a","d","i","u","s">>,
             <<"2","5">>>>),
      \* data-source="nb-pathing radius", text "Pathing radius 40"
      pathing_radius_nb |->
        El(<<"n","b","-","p","a","t","h","i","n","g"," ","r","a","d","i","u","s">>,
           <<<<"P","a","t","h","i","n","g"," ","r","a","d","i","u","s">>,
             <<"4","0">>>>),
      \* data-source="acquisition radius", text "Acq. radius 475"
      acquisition_radius |->
        El(Label_acquisition_radius,
           <<<<"A","c","q","."," ","r","a","d","i","u","s">>,
             <<"4","7","5">>>>),
      \* data-source="aram-dmg-dealt", text "Damage Dealt +5%"
      aram_dmg_dealt |->
        El(Label_aram_dmg_dealt,
           <<<<"D","a","m","a","g","e"," ","D","e","a","l","t">>,
             <<"+","5","%">>>>),
      \* data-source="aram-dmg-dealt", text "Damage Dealt 5%"
      aram_dmg_dealt_bad |->
        El(Label_aram_dmg_dealt,
           <<<<"D","a","m","a","g","e"," ","D","e","a","l","t">>,
             <<"5","%">>>>),
      \* data-source="aram-dmg-taken", text "Damage Received -5%"
      aram_dmg_taken |->
        El(Label_aram_dmg_taken,
           <<<<"D","a","m","a","g","e"," ","R","e","c","e","i","v","e","d">>,
             <<"-","5","%">>>>),
      \* data-source="aram_attack_speed", text "Total Attack Speed +2.5%"
      aram_attack_speed |->
        El(Label_aram_attack_speed,
           <<<<"T","o","t","a","l"," ","A","t","t","a","c","k"," ","S","p","e","e","d">>,
             <<"+","2",".","5","%">>>>),
      \* data-source="aram_ability_haste", text "Ability Haste +10"
      aram_ability_haste |->
        El(Label_aram_ability_haste,
           <<<<"A","b","i","l","i","t","y"," ","H","a","s","t","e">>,
             <<"+","1","0">>>>),
      \* data-source="aram_energy_regen", text "Energy Regen +20%"
      aram_energy_regen |->
        El(Label_aram_energy_regen,
           <<<<"E","n","e","r","g","y"," ","R","e","g","e","n">>,
             <<"+","2","0","%">>>>),
      \* data-source="aram-healing", text "Healing +20%"
      aram_healing |->
        El(Label_aram_healing,
           <<<<"H","e","a","l","i","n","g">>,
             <<"+","2","0","%">>>>),
      \* data-source="aram-shielding", text "Shielding -10%"
      aram_shielding |->
        El(Label_aram_shielding,
           <<<<"S","h","i","e","l","d","i","n","g">>,
             <<"-","1","0","%">>>>),
      \* data-source="aram_tenacity", text "Tenacity & Slow Resist +20%"
      aram_tenacity |->
        El(Label_aram_tenacity,
           <<<<"T","e","n","a","c","i","t","y"," ","&"," ","S","l","o","w"," ","R","e","s","i","s","t">>,
             <<"+","2","0","%">>>>),
      \* data-source="nb-health", text "Health 600 (+ 90)"
      ignored |->
        El(<<"n","b","-","h","e","a","l","t","h">>,
           <<<<"H","e","a","l","t","h">>,
             <<"6","0","0"," ","(","+"," ","9","0",")">>>>),
      \* data-source="lethality", text "Lethality 10"
      unknown |->
        El(<<"l","e","t","h","a","l","i","t","y">>,
           <<<<"L","e","t","h","a","l","i","t","y">>,
             <<"1","0">>>>),
      \* data-source="lethality", text ""
      unknown_empty |->
        El(<<"l","e","t","h","a","l","i","t","y">>,
           <<<<" ">>>>)
    ]

\* every sample element
SampleEls == {SampleEl[k] : k \in DOMAIN SampleEl}

\* the elements that sequences of several observations are built from
CoreEls ==
    {SampleEl.health, SampleEl.health_no_growth, SampleEl.health_bad, SampleEl.health_empty,
     SampleEl.resource_mana, SampleEl.resource_placeholder, SampleEl.resource_regen,
     SampleEl.resource_regen_placeholder, SampleEl.ignored, SampleEl.unknown}

\* longest sequence of observations tried
MaxEls == 3

\* elements whose labels contain "pathing radius", and two that do not
PathingEls ==
    {SampleEl.pathing_radius, SampleEl.pathing_radius_2, SampleEl.pathing_radius_3,
     SampleEl.ms, SampleEl.health}

\* the observation sequences tried: every sample alone, and every sequence of
\* core elements and of pathing elements up to MaxEls
ElSeqs ==
    {<<e>> : e \in SampleEls}
        \cup UNION {[1..n -> CoreEls] : n \in 0..MaxEls}
        \cup UNION {[1..n -> PathingEls] : n \in 0..MaxEls}

\* the attribute panel the wiki serves at a stats_url
DetailPanel(stats_url) ==
    CASE stats_url[2] = "/wiki/Aatrox" ->
            <<SampleEl.health, SampleEl.resource_placeholder_num, SampleEl.resource_regen_placeholder, SampleEl.armor>>
      [] stats_url[2] = "/wiki/Ahri" ->
            <<SampleEl.health_other, SampleEl.resource_mana, SampleEl.resource_regen, SampleEl.unknown>>
      [] stats_url[2] = "/wiki/Akali" ->
            <<SampleEl.health_no_growth, SampleEl.resource_energy, SampleEl.resource_regen_no_growth, SampleEl.ignored>>
      [] stats_url[2] = "/wiki/Alistar" ->
            <<SampleEl.health_trailing, SampleEl.resource_mana_na, SampleEl.mr>>
      [] OTHER -> <<SampleEl.health_bad, SampleEl.ms>>

---------------------------------------------------------------------------
(* get_page: the page of a visit *)

\* the page get_page yields: a page of the browser context that is not open yet
NewPage ==
    CHOOSE p \in 1..(MaxRows + 1) :
        /\ \A q \in openPages : q[2] # p
        /\ \A r \in 1..(p - 1) : \E q \in openPages : q[2] = r

\* coroutine i is inside its async with get_page(...) block
HasPage(i) == \E q \in openPages : q[1] = i

\* the page variable of coroutine i
PageOf(i) == (CHOOSE q \in openPages : q[1] = i)[2]

\* leaving the async with get_page(...) block without closing the page
ClosedPageLeak(i) == openPages

\* entering the async with get_page(...) block of coroutine i
OpenedPage(i) == openPages \cup {<<i, NewPage>>}

\* leaving the async with get_page(...) block of coroutine i, on any path
ClosedPage(i) == {q \in openPages : q[1] # i}

---------------------------------------------------------------------------
(* asyncio.Semaphore *)

\* a gate that never makes a coroutine wait
LockedNever == FALSE

\* locked() with the test of the value off by one
LockedOffByOne == sem < 0 \/ waiters # <<>>

\* Semaphore.locked()
Locked == sem = 0 \/ waiters # <<>>

\* a release that wakes no waiter
PcAfterReleaseNoWake(p) == p

\* pc after release(): the first waiter, if any, is handed the permit
PcAfterRelease(p) ==
    IF waiters # <<>> THEN [p EXCEPT ![Head(waiters)] = "open"] ELSE p

\* a release that never gives the permit back to the counter
SemAfterReleaseLeaky == sem

\* the free permits after release()
SemAfterRelease == IF waiters # <<>> THEN sem ELSE sem + 1

WaitersAfterRelease == IF waiters # <<>> THEN Tail(waiters) ELSE waiters

\* the detail crawls between acquire and release of the gate
Holding == {i \in Details : pc[i] \in {"open", "goto", "select", "evaluate", "close", "raise"}}

---------------------------------------------------------------------------
(* tenacity: AsyncRetrying(stop=stop_after_attempt(3), reraise=True) *)

\* a stop test that lets one attempt too many through
ShouldStopLate(k) == k > MaxAttempts

\* stop_after_attempt(3): no further attempt once attempt_number >= 3
ShouldStop(k) == k >= MaxAttempts

\* reraise=True: the exception of the last attempt is raised as it is
Reraise(e) == e

\* an attempt of coroutine i fails in operation op: the next attempt starts,
\* or the loop is left with the exception
AttemptFails(i, op) ==
    IF ShouldStop(attempt[i])
    THEN /\ exc' = [exc EXCEPT ![i] = Reraise(Exc(i, attempt[i], op))]
         /\ pc' = [pc EXCEPT ![i] = "raise"]
         /\ attempt' = [attempt EXCEPT ![i] = 0]
    ELSE /\ attempt' = [attempt EXCEPT ![i] = attempt[i] + 1]
         /\ pc' = [pc EXCEPT ![i] = "goto"]
         /\ UNCHANGED exc

\* the last operation of an attempt of coroutine i returns: the loop is left
AttemptSucceeds(i) ==
    /\ attempt' = [attempt EXCEPT ![i] = 0]
    /\ pc' = [pc EXCEPT ![i] = "evaluate"]
    /\ UNCHANGED exc

---------------------------------------------------------------------------
(* Initial state: main() has built the semaphore and is about to crawl *)

EnvChoices ==
    [CHAMPION_DETAILS_MAX_NUM_CONCURRENT_PARSERS : 1..MaxConc,
     MAX_NUM_CHAMPIONS : CapChoices]

\* the extraction variables while no extraction run is modelled
ExIdle ==
    /\ els = <<>>
    /\ elIdx = 1
    /\ champion_stats = ChampionStats(None)
    /\ warnings = 0

Init ==
    /\ env \in EnvChoices
    /\ mainPc = "listing"
    /\ pc = [i \in Coroutines |-> IF i = Listing THEN "init" ELSE "none"]
    /\ attempt = [i \in Coroutines |-> 0]
    /\ exc = [i \in Coroutines |-> NoExc]
    /\ openPages = {}
    /\ table_root = <<>>
    /\ champion_listing_results = <<>>
    /\ sem = env.CHAMPION_DETAILS_MAX_NUM_CONCURRENT_PARSERS
    /\ waiters = <<>>
    /\ details_root = [i \in Details |-> <<>>]
    /\ result = [i \in Details |-> <<>>]
    /\ champion_detailss = <<>>
    /\ persisted = <<>>
    /\ runError = NoExc
    /\ finished = <<>>
    /\ ExIdle

---------------------------------------------------------------------------
(* parse_champion_entrys *)

\* async with get_page(...) as page; the first attempt starts
ListingOpenPage ==
    /\ mainPc = "listing" /\ pc[Listing] = "init"
    /\ pc' = [pc EXCEPT ![Listing] = "goto"]
    /\ attempt' = [attempt EXCEPT ![Listing] = 1]
    /\ openPages' = OpenedPage(Listing)
    /\ UNCHANGED <<env, mainPc, exc, table_root, champion_listing_results, sem,
                   waiters, details_root, result, champion_detailss, persisted,
                   runError, finished, exVars>>

\* page_goto returns: the retry loop ends
ListingGotoOk ==
    /\ pc[Listing] = "goto"
    /\ AttemptSucceeds(Listing)
    /\ UNCHANGED <<env, mainPc, openPages, table_root, champion_listing_results, sem,
                   waiters, details_root, result, champion_detailss, persisted,
                   runError, finished, exVars>>

\* page_goto raises
ListingGotoFail ==
    /\ pc[Listing] = "goto"
    /\ AttemptFails(Listing, "page_goto")
    /\ UNCHANGED <<env, mainPc, openPages, table_root, champion_listing_results, sem,
                   waiters, details_root, result, champion_detailss, persisted,
                   runError, finished, exVars>>

\* locator(...).first.evaluate returns the table's markup
ListingEvaluateOk ==
    /\ pc[Listing] = "evaluate"
    /\ \E t \in Tables : table_root' = <<t>>
    /\ pc' = [pc EXCEPT ![Listing] = "close"]
    /\ UNCHANGED <<env, mainPc, attempt, exc, openPages, champion_listing_results, sem,
                   waiters, details_root, result, champion_detailss, persisted,
                   runError, finished, exVars>>

\* locator(...).first.evaluate raises: outside the retry loop
ListingEvaluateFail ==
    /\ pc[Listing] = "evaluate"
    /\ exc' = [exc EXCEPT ![Listing] = Exc(Listing, 0, "evaluate")]
    /\ pc' = [pc EXCEPT ![Listing] = "raise"]
    /\ UNCHANGED <<env, mainPc, attempt, openPages, table_root,
                   champion_listing_results, sem, waiters, details_root, result,
                   champion_detailss, persisted, runError, finished, exVars>>

\* the page is closed; the row loop runs; on success main goes on to
\* asyncio.gather, which creates one coroutine per stub of the slice
ListingParse ==
    /\ pc[Listing] = "close"
    /\ openPages' = ClosedPage(Listing)
    /\ LET r == ParseRows(table_root[1]) IN
       IF r.ok
       THEN /\ champion_listing_results' = r.entrys
            /\ pc' = [i \in Coroutines |->
                        IF i = Listing THEN "done"
                        ELSE IF i <= Len(SliceTo(r.entrys, env.MAX_NUM_CHAMPIONS))
                        THEN "init" ELSE "none"]
            /\ mainPc' = "gather"
            /\ UNCHANGED <<exc, runError>>
       ELSE /\ exc' = [exc EXCEPT ![Listing] = r.err]
            /\ pc' = [pc EXCEPT ![Listing] = "failed"]
            /\ mainPc' = "failed"
            /\ runError' = r.err
            /\ UNCHANGED champion_listing_results
    /\ UNCHANGED <<env, attempt, table_root, sem, waiters, details_root, result,
                   champion_detailss, persisted, finished, exVars>>

\* the exception leaves get_page (the page is closed) and then main
ListingRaise ==
    /\ pc[Listing] = "raise"
    /\ openPages' = ClosedPage(Listing)
    /\ pc' = [pc EXCEPT ![Listing] = "failed"]
    /\ mainPc' = "failed"
    /\ runError' = exc[Listing]
    /\ UNCHANGED <<env, attempt, exc, table_root, champion_listing_results, sem,
                   waiters, details_root, result, champion_detailss, persisted, finished, exVars>>

---------------------------------------------------------------------------
(* parse_champion_stats *)

\* the detail crawls run while main awaits gather, and after gather raised
\* until the event loop cancels them
Running(i) == i \in Details /\ mainPc \in {"gather", "failed"}

\* gather has run every coroutine up to its first suspension
AllStarted == \A j \in Created : pc[j] # "init"

\* async with sem: the permit is taken, or the coroutine queues for it; the
\* coroutines take their first step in the order gather was given them
Acquire(i) ==
    /\ Running(i) /\ pc[i] = "init"
    /\ \A j \in Created : j < i => pc[j] # "init"
    /\ IF Locked
       THEN /\ waiters' = Append(waiters, i)
            /\ pc' = [pc EXCEPT ![i] = "wait"]
            /\ UNCHANGED sem
       ELSE /\ sem' = sem - 1
            /\ pc' = [pc EXCEPT ![i] = "open"]
            /\ UNCHANGED waiters
    /\ UNCHANGED <<env, mainPc, attempt, exc, openPages, table_root,
                   champion_listing_results, details_root, result, champion_detailss,
                   persisted, runError, finished, exVars>>

\* async with get_page(...) as page; the first attempt starts
OpenPage(i) ==
    /\ Running(i) /\ pc[i] = "open"
    /\ AllStarted
    /\ openPages' = OpenedPage(i)
    /\ attempt' = [attempt EXCEPT ![i] = 1]
    /\ pc' = [pc EXCEPT ![i] = "goto"]
    /\ UNCHANGED <<env, mainPc, exc, table_root, champion_listing_results, sem,
                   waiters, details_root, result, champion_detailss, persisted,
                   runError, finished, exVars>>

\* page_goto returns: select_option is next, in the same attempt
GotoOk(i) ==
    /\ Running(i) /\ pc[i] = "goto"
    /\ pc' = [pc EXCEPT ![i] = "select"]
    /\ UNCHANGED <<env, mainPc, attempt, exc, openPages, table_root,
                   champion_listing_results, sem, waiters, details_root, result,
                   champion_detailss, persisted, runError, finished, exVars>>

\* page_goto raises
GotoFail(i) ==
    /\ Running(i) /\ pc[i] = "goto"
    /\ AttemptFails(i, "page_goto")
    /\ UNCHANGED <<env, mainPc, openPages, table_root, champion_listing_results, sem,
                   waiters, details_root, result, champion_detailss, persisted,
                   runError, finished, exVars>>

\* select_option returns: the retry loop ends
SelectOk(i) ==
    /\ Running(i) /\ pc[i] = "select"
    /\ AttemptSucceeds(i)
    /\ UNCHANGED <<env, mainPc, openPages, table_root, champion_listing_results, sem,
                   waiters, details_root, result, champion_detailss, persisted,
                   runError, finished, exVars>>

\* select_option raises and the exception leaves the retry loop at once
SelectFailFatal(i) ==
    /\ Running(i) /\ pc[i] = "select"
    /\ exc' = [exc EXCEPT ![i] = Exc(i, attempt[i], "select_option")]
    /\ pc' = [pc EXCEPT ![i] = "raise"]
    /\ attempt' = [attempt EXCEPT ![i] = 0]
    /\ UNCHANGED <<env, mainPc, openPages, table_root, champion_listing_results, sem,
                   waiters, details_root, result, champion_detailss, persisted,
                   runError, finished, exVars>>

\* select_option raises
SelectFail(i) ==
    /\ Running(i) /\ pc[i] = "select"
    /\ AttemptFails(i, "select_option")
    /\ UNCHANGED <<env, mainPc, openPages, table_root, champion_listing_results, sem,
                   waiters, details_root, result, champion_detailss, persisted,
                   runError, finished, exVars>>

\* details_locator.evaluate returns the panel's markup
EvaluateOk(i) ==
    /\ Running(i) /\ pc[i] = "evaluate"
    /\ details_root' = [details_root EXCEPT
                          ![i] = DetailPanel(champion_listing_results[i].stats_url)]
    /\ pc' = [pc EXCEPT ![i] = "close"]
    /\ UNCHANGED <<env, mainPc, attempt, exc, openPages, table_root,
                   champion_listing_results, sem, waiters, result, champion_detailss,
                   persisted, runError, finished, exVars>>

\* details_locator.evaluate raises: outside the retry loop
EvaluateFail(i) ==
    /\ Running(i) /\ pc[i] = "evaluate"
    /\ exc' = [exc EXCEPT ![i] = Exc(i, 0, "evaluate")]
    /\ pc' = [pc EXCEPT ![i] = "raise"]
    /\ UNCHANGED <<env, mainPc, attempt, openPages, table_root,
                   champion_listing_results, sem, waiters, details_root, result,
                   champion_detailss, persisted, runError, finished, exVars>>

\* both async with blocks are left: the page is closed, the permit released;
\* the coroutine is then at line 194, with the extraction loop still to run
Release(i) ==
    /\ Running(i) /\ pc[i] = "close"
    /\ openPages' = ClosedPage(i)
    /\ sem' = SemAfterRelease
    /\ waiters' = WaitersAfterRelease
    /\ pc' = PcAfterRelease([pc EXCEPT ![i] = "extract"])
    /\ UNCHANGED <<env, mainPc, attempt, exc, table_root, champion_listing_results,
                   details_root, result, champion_detailss, persisted, runError,
                   finished, exVars>>

\* lines 194-311: the record is built from details_root and returned
Extract(i) ==
    /\ Running(i) /\ pc[i] = "extract"
    /\ result' = [result EXCEPT
                    ![i] = <<ExtractStats(champion_listing_results[i].name, details_root[i])>>]
    /\ pc' = [pc EXCEPT ![i] = "done"]
    /\ finished' = Append(finished, i)
    /\ UNCHANGED <<env, mainPc, attempt, exc, openPages, table_root,
                   champion_listing_results, sem, waiters, details_root,
                   champion_detailss, persisted, runError, exVars>>

\* gather that keeps a coroutine's exception to itself
GatherSwallows == FALSE

\* gather(..., return_exceptions=False): the first exception of a coroutine is
\* raised in main, which is awaiting gather
GatherRaises == mainPc = "gather"

\* the exception leaves both async with blocks and the coroutine; the first
\* exception of a coroutine makes gather raise it in main
Raise(i) ==
    /\ Running(i) /\ pc[i] = "raise"
    /\ openPages' = ClosedPage(i)
    /\ sem' = SemAfterRelease
    /\ waiters' = WaitersAfterRelease
    /\ pc' = PcAfterRelease([pc EXCEPT ![i] = "failed"])
    /\ IF GatherRaises
       THEN mainPc' = "failed" /\ runError' = exc[i]
       ELSE UNCHANGED <<mainPc, runError>>
    /\ UNCHANGED <<env, attempt, exc, table_root, champion_listing_results,
                   details_root, result, champion_detailss, persisted, finished, exVars>>

\* main has raised: the event loop cancels a coroutine that has not ended, at
\* the await it is suspended in; its async with blocks are left
Cancel(i) ==
    /\ i \in Details /\ mainPc = "failed"
    /\ pc[i] \in {"init", "wait", "open", "goto", "select", "evaluate", "close", "raise"}
    /\ openPages' = ClosedPage(i)
    /\ attempt' = [attempt EXCEPT ![i] = 0]
    /\ IF i \in Holding
       THEN /\ sem' = SemAfterRelease
            /\ waiters' = WaitersAfterRelease
            /\ pc' = PcAfterRelease([pc EXCEPT ![i] = "cancelled"])
       ELSE /\ waiters' = SelectSeq(waiters, LAMBDA w : w # i)
            /\ pc' = [pc EXCEPT ![i] = "cancelled"]
            /\ UNCHANGED sem
    /\ UNCHANGED <<env, mainPc, exc, table_root, champion_listing_results,
                   details_root, result, champion_detailss, persisted, runError,
                   finished, exVars>>

---------------------------------------------------------------------------
(* main, after the fan-out *)

\* the records in the order the coroutines returned them
GatherResultsByCompletion == [k \in 1..Cardinality(Created) |-> result[finished[k]][1]]

\* what gather returns: the records in the order of its arguments
GatherResults == [k \in 1..Cardinality(Created) |-> result[k][1]]

\* gather returns once every coroutine has returned
GatherReturn ==
    /\ mainPc = "gather"
    /\ \A i \in Created : pc[i] = "done"
    /\ champion_detailss' = GatherResults
    /\ mainPc' = "persist"
    /\ UNCHANGED <<env, pc, attempt, exc, openPages, table_root,
                   champion_listing_results, sem, waiters, details_root, result,
                   persisted, runError, finished, exVars>>

\* minio_put_object_in_json(obj=[... zip(champion_listing_results, champion_detailss)])
Persist ==
    /\ mainPc = "persist"
    /\ persisted' = <<Zip(champion_listing_results, champion_detailss)>>
    /\ mainPc' = "traces"
    /\ UNCHANGED <<env, pc, attempt, exc, openPages, table_root,
                   champion_listing_results, sem, waiters, details_root, result,
                   champion_detailss, runError, finished, exVars>>

\* minio_fput_object(traces.zip)
UploadTraces ==
    /\ mainPc = "traces"
    /\ mainPc' = "done"
    /\ UNCHANGED <<env, pc, attempt, exc, openPages, table_root,
                   champion_listing_results, sem, waiters, details_root, result,
                   champion_detailss, persisted, runError, finished, exVars>>

Next ==
    \/ ListingOpenPage
    \/ ListingGotoOk
    \/ ListingGotoFail
    \/ ListingEvaluateOk
    \/ ListingEvaluateFail
    \/ ListingParse
    \/ ListingRaise
    \/ \E i \in Details : Acquire(i)
    \/ \E i \in Details : OpenPage(i)
    \/ \E i \in Details : GotoOk(i)
    \/ \E i \in Details : GotoFail(i)
    \/ \E i \in Details : SelectOk(i)
    \/ \E i \in Details : SelectFail(i)
    \/ \E i \in Details : EvaluateOk(i)
    \/ \E i \in Details : EvaluateFail(i)
    \/ \E i \in Details : Release(i)
    \/ \E i \in Details : Extract(i)
    \/ \E i \in Details : Raise(i)
    \/ \E i \in Details : Cancel(i)
    \/ GatherReturn
    \/ Persist
    \/ UploadTraces

Spec == Init /\ [][Next]_vars

\* the steps of the listing crawl
ListingNext ==
    \/ ListingOpenPage \/ ListingGotoOk \/ ListingGotoFail \/ ListingEvaluateOk
    \/ ListingEvaluateFail \/ ListingParse \/ ListingRaise

\* the steps of the detail crawl i up to the release of the gate, and its
\* raise or cancellation
DetailNext(i) ==
    \/ Acquire(i) \/ OpenPage(i) \/ GotoOk(i) \/ GotoFail(i) \/ SelectOk(i)
    \/ SelectFail(i) \/ EvaluateOk(i) \/ EvaluateFail(i) \/ Release(i)
    \/ Raise(i) \/ Cancel(i)

\* the detail crawl i returns: an Extract(i) step, told by its change of pc
Returns(i) == Running(i) /\ pc[i] = "extract" /\ pc' = [pc EXCEPT ![i] = "done"]

\* the steps of main after the fan-out
MainNext == GatherReturn \/ Persist \/ UploadTraces

\* the event loop runs every coroutine that is ready, and every playwright
\* call ends (it returns, or raises, at the latest on its timeout of 10 s)
Fairness ==
    /\ WF_vars(ListingNext)
    /\ \A i \in Details : WF_vars(DetailNext(i)) /\ WF_pc(Returns(i))
    /\ WF_vars(MainNext)

FairSpec == Spec /\ Fairness

---------------------------------------------------------------------------
(* The extraction loop of parse_champion_stats, one observation per step *)

\* the pipeline variables while only an extraction run is modelled
PipeIdle ==
    /\ env = [CHAMPION_DETAILS_MAX_NUM_CONCURRENT_PARSERS |-> 1, MAX_NUM_CHAMPIONS |-> <<>>]
    /\ mainPc = "extraction"
    /\ pc = [i \in Coroutines |-> "none"]
    /\ attempt = [i \in Coroutines |-> 0]
    /\ exc = [i \in Coroutines |-> NoExc]
    /\ openPages = {}
    /\ table_root = <<>>
    /\ champion_listing_results = <<>>
    /\ sem = 1
    /\ waiters = <<>>
    /\ details_root = [i \in Details |-> <<>>]
    /\ result = [i \in Details |-> <<>>]
    /\ champion_detailss = <<>>
    /\ persisted = <<>>
    /\ runError = NoExc
    /\ finished = <<>>

\* line 194: a fresh record for the stub's name, before the first observation
ExInit ==
    /\ PipeIdle
    /\ els \in ElSeqs
    /\ elIdx = 1
    /\ \E name \in {RosterNames[1], None} : champion_stats = ChampionStats(name)
    /\ warnings = 0

\* one iteration of the loop of line 195
ExProcessEl ==
    /\ elIdx <= Len(els)
    /\ LET r == ProcessEl(champion_stats, els[elIdx]) IN
        /\ champion_stats' = r.stats
        /\ warnings' = IF r.warned THEN warnings + 1 ELSE warnings
    /\ elIdx' = elIdx + 1
    /\ UNCHANGED <<els, pipeVars>>

ExNext == ExProcessEl

ExSpec == ExInit /\ [][ExNext]_vars

---------------------------------------------------------------------------
(* Claims *)

\* C1: the number of detail crawls that hold a permit of the gate (between
\* acquire and release) is between 0 and CHAMPION_DETAILS_MAX_NUM_CONCURRENT_PARSERS
\* in every reachable state.
C1_GateBound ==
    /\ 0 <= Cardinality(Holding)
    /\ Cardinality(Holding) <= env.CHAMPION_DETAILS_MAX_NUM_CONCURRENT_PARSERS

\* the gate is full, a navigation is in flight and another crawl is queued
C1_Witness ==
    /\ Cardinality(Holding) = env.CHAMPION_DETAILS_MAX_NUM_CONCURRENT_PARSERS
    /\ \E i \in Holding : pc[i] = "goto"
    /\ waiters # <<>>

\* C2: when the run succeeds, the k-th pair handed to persistence holds the k-th
\* stub of the listing (document order of the table rows) and the record that
\* the detail crawl of that stub returned, whatever the order of completion.
C2_OrderPreserved ==
    persisted # <<>> =>
        LET obj == persisted[1]
            rows == table_root[1]
        IN  /\ Len(obj) = Len(SliceTo(rows, env.MAX_NUM_CHAMPIONS))
            /\ \A k \in 1..Len(obj) :
                /\ obj[k].listing_result = RowEntry(rows[k])
                /\ obj[k].details = result[k][1]
                /\ details_root[k] = DetailPanel(RowEntry(rows[k]).stats_url)
                /\ obj[k].details = ExtractStats(rows[k].sort_value, details_root[k])

\* two pairs were persisted although the second crawl returned first
C2_Witness ==
    /\ persisted # <<>>
    /\ Len(persisted[1]) = 2
    /\ finished = <<2, 1>>

\* C3: a result is handed to persistence only when every detail crawl has
\* returned its record; once a detail crawl has failed (retries exhausted) the
\* run has failed and nothing, partial or full, is handed to persistence.
C3_AllOrNothing ==
    /\ persisted # <<>> =>
        /\ \A i \in Created : pc[i] = "done"
        /\ Len(persisted[1]) = Cardinality(Created)
        /\ runError = NoExc
    /\ (\E i \in Details : pc[i] = "failed") =>
        /\ mainPc = "failed"
        /\ runError # NoExc
        /\ persisted = <<>>
    /\ mainPc = "failed" => persisted = <<>>

\* one crawl failed on its third attempt after another had returned its record
C3_Witness ==
    \E i, j \in Details :
        /\ pc[i] = "failed" /\ exc[i].attempt = MaxAttempts
        /\ pc[j] = "done"
        /\ mainPc = "failed"

\* coroutine i is inside an attempt of its retry loop
InAttempt(i) == pc[i] \in {"goto", "select"}

\* the operation an attempt of coroutine i is suspended in
AttemptOp(i) == IF pc[i] = "goto" THEN "page_goto" ELSE "select_option"

\* this step is the failure of the current attempt of coroutine i
AttemptFailedStep(i) ==
    InAttempt(i) /\ (pc'[i] = "raise" \/ attempt'[i] = attempt[i] + 1)

\* C4: in every retry loop (listing and detail) attempts are sequential: the
\* first starts when the page is open, a later one starts only in the step in
\* which the previous one fails; never more than 3 are made; none starts once
\* the loop is left (after a success in particular); a failed attempt is
\* followed by a new one exactly when fewer than 3 were made, and the failure
\* of the 3rd raises that very exception, unwrapped, up to main.
C4_Retry ==
    [][\A i \in Coroutines :
        /\ attempt'[i] <= MaxAttempts
        /\ (attempt'[i] # attempt[i] /\ attempt'[i] # 0) =>
            \/ /\ attempt[i] = 0 /\ attempt'[i] = 1
               /\ pc[i] \in {"init", "open"} /\ pc'[i] = "goto"
            \/ /\ InAttempt(i) /\ attempt'[i] = attempt[i] + 1
               /\ pc'[i] = "goto"
        /\ pc[i] \in {"evaluate", "close", "extract", "done", "raise", "failed", "cancelled"} =>
            /\ attempt'[i] = 0
            /\ ~InAttempt(i)'
        /\ AttemptFailedStep(i) =>
            IF attempt[i] < MaxAttempts
            THEN attempt'[i] = attempt[i] + 1 /\ pc'[i] = "goto" /\ exc'[i] = NoExc
            ELSE pc'[i] = "raise" /\ exc'[i] = Exc(i, attempt[i], AttemptOp(i))
        /\ (pc[i] = "raise" /\ pc'[i] = "failed" /\ mainPc \in {"listing", "gather"}) =>
            mainPc' = "failed" /\ runError' = exc[i]
      ]_vars

\* a detail crawl failed its 3rd attempt and that exception left main
C4_Witness ==
    \E i \in Details :
        /\ pc[i] = "failed"
        /\ exc[i] = Exc(i, MaxAttempts, "page_goto")
        /\ runError = exc[i]

\* the listing crawl has returned one stub for every row of the table it read
ListingCompleted ==
    /\ pc[Listing] = "done"
    /\ ~HasPage(Listing)
    /\ table_root # <<>>
    /\ Len(champion_listing_results) = Len(table_root[1])
    /\ \A r \in 1..Len(table_root[1]) : champion_listing_results[r] = RowEntry(table_root[1][r])

\* C5: no detail crawl exists, holds a permit, has a page open or is in an
\* attempt before the listing crawl has returned its whole stub list; if the
\* listing crawl fails no detail crawl ever starts.
C5_Barrier ==
    /\ \A i \in Details :
        (pc[i] # "none" \/ HasPage(i) \/ attempt[i] > 0) => ListingCompleted
    /\ sem < env.CHAMPION_DETAILS_MAX_NUM_CONCURRENT_PARSERS => ListingCompleted
    /\ pc[Listing] \in {"raise", "failed"} =>
        /\ \A i \in Details : pc[i] = "none"
        /\ sem = env.CHAMPION_DETAILS_MAX_NUM_CONCURRENT_PARSERS
        /\ \A i \in Details : ~HasPage(i)

\* a detail crawl is navigating, after the listing of two rows has returned
C5_Witness ==
    /\ \E i \in Details : pc[i] = "goto" /\ HasPage(i)
    /\ Len(champion_listing_results) = 2

\* C6: the record a detail crawl returns carries the name of the stub it was
\* called with, and in every persisted pair details.name = listing_result.name,
\* also when MAX_NUM_CHAMPIONS truncates the stubs.
C6_Identity ==
    /\ \A i \in Details :
        result[i] # <<>> => result[i][1]["name"] = champion_listing_results[i].name
    /\ persisted # <<>> =>
        \A k \in 1..Len(persisted[1]) :
            persisted[1][k].details["name"] = persisted[1][k].listing_result.name

\* one pair was persisted for a listing of two stubs cut by MAX_NUM_CHAMPIONS
C6_Witness ==
    /\ persisted # <<>>
    /\ Len(persisted[1]) = 1
    /\ Len(champion_listing_results) = 2
    /\ persisted[1][1].details["name"] = RosterNames[1]

\* a row lacks td[1], its data-sort-value, its anchor, the anchor's href or td[4]
RowLacksRequired(row) ==
    \/ ~row.td1
    \/ row.sort_value = None
    \/ ~row.anchor
    \/ row.href = None
    \/ ~row.td4

\* C7: if a row of the table read lacks a required part, the listing crawl
\* raises: it returns no stub, no detail crawl is created, nothing is persisted.
C7_NoLeniency ==
    (table_root # <<>> /\ \E r \in 1..Len(table_root[1]) : RowLacksRequired(table_root[1][r])) =>
        /\ pc[Listing] \in {"close", "failed"}
        /\ champion_listing_results = <<>>
        /\ \A i \in Details : pc[i] = "none"
        /\ persisted = <<>>

---------------------------------------------------------------------------
(* Claims about the extraction loop, under ExSpec *)

\* this step processes the observation els[elIdx]
ProcessingStep == elIdx <= Len(els) /\ elIdx' = elIdx + 1

\* the match of the pattern of the k-th observation's label on its text
MatchOf(k) == ReMatch(RegexOf(els[k].data_source), TextOf(els[k]))

\* the k-th observation has a label with a pattern, a text, and the text
\* does not match the pattern
Mismatches(k) ==
    /\ RegexOf(els[k].data_source) # NoRegex
    /\ TextOf(els[k]) # <<>>
    /\ ~MatchOf(k).ok

\* C8: a field of the record has a value only if an observation processed so
\* far carries a label whose pattern matched its text and captured that value
\* for the field; an observation whose text does not match its label's pattern
\* changes nothing, logs no warning, and the loop goes on to the next one.
C8_Lenient ==
    /\ [](\A f \in FieldNames :
            champion_stats[f] # NoneText =>
                \E k \in 1..(elIdx - 1) :
                    /\ f \in RegexOf(els[k].data_source).groups
                    /\ MatchOf(k).ok
                    /\ MatchOf(k).caps[f] = champion_stats[f])
    /\ [][(elIdx <= Len(els) /\ Mismatches(elIdx)) =>
            /\ champion_stats' = champion_stats
            /\ warnings' = warnings
            /\ elIdx' = elIdx + 1]_vars

\* a mismatching health observation left health unset and the observation
\* after it was still extracted
C8_Witness ==
    /\ Len(els) = 2 /\ elIdx = 3
    /\ els[1] = SampleEl.health_bad /\ els[2] = SampleEl.resource_mana
    /\ champion_stats["health_base"] = NoneText
    /\ champion_stats["health_growth"] = NoneText
    /\ champion_stats["resource_name"] = <<"M","a","n","a">>

ResourceFields == {"resource_name", "resource_base", "resource_growth"}
ResourceRegenFields == {"resource_regen_base", "resource_regen_growth"}

\* C9: an observation labelled "resource" whose match gives the name
\* "Resource" writes none of the three resource fields (they stay unset in a
\* fresh record), one labelled "resource regen" whose matched base is "N/A"
\* writes neither regen field; any other match writes the captured groups:
\* "Mana 100 (+ 10)" gives "Mana", "100", "10".
C9_Placeholders ==
    /\ [][(ProcessingStep /\ TextOf(els[elIdx]) # <<>> /\ MatchOf(elIdx).ok) =>
            LET m == MatchOf(elIdx) IN
            /\ els[elIdx].data_source = Label_resource =>
                IF m.caps["resource_name"] = <<"R","e","s","o","u","r","c","e">>
                THEN \A f \in ResourceFields : champion_stats'[f] = champion_stats[f]
                ELSE \A f \in ResourceFields : champion_stats'[f] = m.caps[f]
            /\ els[elIdx].data_source = Label_resource_regen =>
                IF m.caps["resource_regen_base"] = <<"N","/","A">>
                THEN \A f \in ResourceRegenFields : champion_stats'[f] = champion_stats[f]
                ELSE \A f \in ResourceRegenFields : champion_stats'[f] = m.caps[f]
          ]_vars
    /\ []((elIdx = 2 /\ els[1] = SampleEl.resource_placeholder) =>
            \A f \in ResourceFields : champion_stats[f] = NoneText)
    /\ []((elIdx = 2 /\ els[1] = SampleEl.resource_placeholder_num) =>
            \A f \in ResourceFields : champion_stats[f] = NoneText)
    /\ []((elIdx = 2 /\ els[1] = SampleEl.resource_regen_placeholder) =>
            \A f \in ResourceRegenFields : champion_stats[f] = NoneText)
    /\ []((elIdx = 2 /\ els[1] = SampleEl.resource_mana) =>
            /\ champion_stats["resource_name"] = <<"M","a","n","a">>
            /\ champion_stats["resource_base"] = <<"1","0","0">>
            /\ champion_stats["resource_growth"] = <<"1","0">>)

\* "Resource N/A" was processed as the first observation: no resource field set
C9_Witness ==
    /\ elIdx = 2 /\ els[1] = SampleEl.resource_placeholder
    /\ TextOf(els[1]) = <<"R","e","s","o","u","r","c","e"," ","N","/","A">>
    /\ \A f \in ResourceFields : champion_stats[f] = NoneText

\* the labels whose pattern has a base group and an optional growth group,
\* with the two fields the arm writes
GrowthRules ==
    {<<Label_health, "health_base", "health_growth">>,
     <<Label_resource, "resource_base", "resource_growth">>,
     <<Label_health_regen, "health_regen_base", "health_regen_growth">>,
     <<Label_resource_regen, "resource_regen_base", "resource_regen_growth">>,
     <<Label_armor, "armor_base", "armor_growth">>,
     <<Label_attack_damage, "attack_base", "attack_growth">>,
     <<Label_mr, "magic_resist_base", "magic_resist_growth">>}

\* the match m of a resource or resource regen observation is a placeholder
IsPlaceholder(m) ==
    \/ "resource_name" \in DOMAIN m.caps
        /\ m.caps["resource_name"] = <<"R","e","s","o","u","r","c","e">>
    \/ "resource_regen_base" \in DOMAIN m.caps
        /\ m.caps["resource_regen_base"] = <<"N","/","A">>

\* C10: for a rule with an optional "(+ growth)" group, an observation whose
\* text matches (placeholders aside) leaves base and growth equal to the
\* captured substrings, growth being None when the text has no growth clause;
\* text after the matched prefix is ignored.  "Health 600 (+ 90)" gives "600"
\* and "90", "Health 600" gives "600" and None.
C10_OptionalGrowth ==
    /\ [][\A rule \in GrowthRules :
            (/\ ProcessingStep
             /\ els[elIdx].data_source = rule[1]
             /\ TextOf(els[elIdx]) # <<>>
             /\ MatchOf(elIdx).ok
             /\ ~IsPlaceholder(MatchOf(elIdx))) =>
                /\ champion_stats'[rule[2]] = MatchOf(elIdx).caps[rule[2]]
                /\ champion_stats'[rule[2]] # NoneText
                /\ champion_stats'[rule[3]] = MatchOf(elIdx).caps[rule[3]]
          ]_vars
    /\ []((elIdx = 2 /\ els[1] = SampleEl.health) =>
            /\ champion_stats["health_base"] = <<"6","0","0">>
            /\ champion_stats["health_growth"] = <<"9","0">>)
    /\ []((elIdx = 2 /\ els[1] = SampleEl.health_no_growth) =>
            /\ champion_stats["health_base"] = <<"6","0","0">>
            /\ champion_stats["health_growth"] = NoneText)
    /\ []((elIdx = 2 /\ els[1] = SampleEl.health_trailing) =>
            /\ champion_stats["health_base"] = <<"6","0","0">>
            /\ champion_stats["health_growth"] = <<"9","0">>)
    /\ []((elIdx = 2 /\ els[1] = SampleEl.mr_no_growth) =>
            /\ champion_stats["magic_resist_base"] = <<"3","2">>
            /\ champion_stats["magic_resist_growth"] = NoneText)

\* "Health 600" was processed: base set, growth None
C10_Witness ==
    /\ elIdx = 2 /\ els[1] = SampleEl.health_no_growth
    /\ TextOf(els[1]) = <<"H","e","a","l","t","h"," ","6","0","0">>
    /\ champion_stats["health_base"] = <<"6","0","0">>
    /\ champion_stats["health_growth"] = NoneText

\* an earlier observation of the run carries the label of the current one
LabelSeenBefore ==
    \E k \in 1..(elIdx - 1) : els[k].data_source = els[elIdx].data_source

\* C12: once a field of the record is set, an observation that carries a
\* label already seen in the run changes that field neither to another value
\* nor back to unset.
C12_SetAtMostOnce ==
    [][(ProcessingStep /\ LabelSeenBefore) =>
        \A f \in FieldNames :
            champion_stats[f] # NoneText => champion_stats'[f] = champion_stats[f]]_vars

---------------------------------------------------------------------------
(* Claims about the gate and the pages, under Spec *)

\* the detail crawl i has returned its record, raised, or was cancelled
Ended(i) == pc[i] \in {"done", "failed", "cancelled"}

\* the detail crawl i is past its acquire call
PastAcquire(i) == pc[i] \notin {"none", "init", "wait"}

\* C13: a detail crawl has a page or is in a navigation attempt only while it
\* holds a slot of the gate, and from its acquire until it has returned its
\* record or raised it holds the slot.
C13_GateHeld ==
    \A i \in Details :
        /\ (HasPage(i) \/ attempt[i] > 0) => i \in Holding
        /\ (PastAcquire(i) /\ ~Ended(i)) => i \in Holding

\* the concurrency limit the semaphore was built with
Limit == env.CHAMPION_DETAILS_MAX_NUM_CONCURRENT_PARSERS

\* C14: the permits are conserved over every way a detail crawl ends (the
\* free permits and the crawls holding one add up to the limit), once every
\* detail crawl has ended all permits are free and nobody waits, and a crawl
\* waits only while every permit is held by a crawl that has not ended.
C14_GateReleased ==
    /\ sem + Cardinality(Holding) = Limit
    /\ \A i \in Details : Ended(i) => i \notin Holding
    /\ (\A i \in Created : Ended(i)) => (sem = Limit /\ waiters = <<>>)
    /\ \A i \in Details : pc[i] = "wait" <=> \E k \in 1..Len(waiters) : waiters[k] = i
    /\ waiters # <<>> => (sem = 0 /\ Cardinality(Holding) = Limit)

\* the first crawl has failed, the second holds the slot it gave back, the
\* third still waits
C14_Witness ==
    /\ Limit = 1
    /\ pc[1] = "failed" /\ exc[1].op = "select_option"
    /\ 2 \in Holding
    /\ pc[3] = "wait"

\* C15: no page is used by two coroutines and no coroutine has two pages; a
\* coroutine that navigates or reads has a page of its own; the page is gone
\* once the visit has ended on any path (record returned, exception, retries
\* exhausted, cancellation); and while a visit has its page, every attempt
\* uses that same page.
C15_PageIsolation ==
    /\ [](\A q1, q2 \in openPages : (q1[1] = q2[1] \/ q1[2] = q2[2]) => q1 = q2)
    /\ [](\A i \in Coroutines :
            /\ (pc[i] \in {"goto", "select", "evaluate"}) => HasPage(i)
            /\ (pc[i] \in {"extract", "done", "failed", "cancelled"}) => ~HasPage(i))
    /\ [][\A i \in Coroutines :
            (HasPage(i) /\ HasPage(i)') => PageOf(i)' = PageOf(i)]_vars

\* two detail crawls navigate at once, one of them in its second attempt,
\* each on its own page
C15_Witness ==
    \E i, j \in Details :
        /\ i # j
        /\ pc[i] = "goto" /\ attempt[i] = 2
        /\ pc[j] = "select"
        /\ HasPage(i) /\ HasPage(j)
        /\ PageOf(i) # PageOf(j)

---------------------------------------------------------------------------
(* Claims about label dispatch, under ExSpec *)

\* the run over els is complete
ExDone == elIdx = Len(els) + 1

\* the observations of els carry pairwise different labels
DistinctLabels ==
    \A a, b \in 1..Len(els) : a # b => els[a].data_source # els[b].data_source

\* the permutations of 1..n
Perms(n) == {p \in [1..n -> 1..n] : \A a, b \in 1..n : a # b => p[a] # p[b]}

\* els in the order p
Permuted(p) == [k \in 1..Len(els) |-> els[p[k]]]

\* the record is what every order of the observations of els gives
SameInEveryOrder ==
    \A p \in Perms(Len(els)) :
        ExtractStats(champion_stats["name"], Permuted(p)) = champion_stats

\* the fields that the arm of the k-th observation's label writes
FieldsOf(k) == RegexOf(els[k].data_source).groups

\* C16 as stated: for observations with pairwise different labels every order
\* gives the same record, and a step changes no field that an observation
\* with another label sets.
C16_FieldIndependence ==
    /\ []((ExDone /\ DistinctLabels) => SameInEveryOrder)
    /\ [][(ProcessingStep /\ DistinctLabels) =>
            \A f \in FieldNames :
                champion_stats'[f] # champion_stats[f] =>
                    \A k \in 1..Len(els) : k # elIdx => f \notin FieldsOf(k)]_vars

\* at most one observation of els has a label that contains "pathing radius"
AtMostOnePathing ==
    \A a, b \in 1..Len(els) :
        (/\ Contains(els[a].data_source, <<"p","a","t","h","i","n","g"," ","r","a","d","i","u","s">>)
         /\ Contains(els[b].data_source, <<"p","a","t","h","i","n","g"," ","r","a","d","i","u","s">>))
            => a = b

\* C16 amended: for observations with pairwise different labels of which at
\* most one contains "pathing radius", every order gives the same record and
\* a step changes no field that another observation sets; in any sequence a
\* step changes only fields of its own label's arm, and different arms write
\* different fields.
C16_RuleIndependence ==
    /\ []((ExDone /\ DistinctLabels /\ AtMostOnePathing) => SameInEveryOrder)
    /\ [][(ProcessingStep /\ DistinctLabels /\ AtMostOnePathing) =>
            \A f \in FieldNames :
                champion_stats'[f] # champion_stats[f] =>
                    \A k \in 1..Len(els) : k # elIdx => f \notin FieldsOf(k)]_vars
    /\ [][ProcessingStep =>
            \A f \in FieldNames :
                champion_stats'[f] # champion_stats[f] => f \in FieldsOf(elIdx)]_vars
    /\ [](\A e1, e2 \in SampleEls :
            RegexOf(e1.data_source) # RegexOf(e2.data_source) =>
                RegexOf(e1.data_source).groups \cap RegexOf(e2.data_source).groups = {})

\* three observations of different rules, one with a label that only contains
\* "pathing radius", were extracted
C16_Witness ==
    /\ ExDone /\ Len(els) = 3
    /\ els[1] = SampleEl.pathing_radius_2 /\ els[2] = SampleEl.ms /\ els[3] = SampleEl.health
    /\ champion_stats["pathing_radius"] = <<"3","0">>
    /\ champion_stats["movement_speed"] = <<"3","4","5">>
    /\ champion_stats["health_base"] = <<"6","0","0">>

\* the label has an arm with a pattern
HasRule(label) == RegexOf(label) # NoRegex

\* the label starts with "nb-", "nb_", "ofa-", "ofa_", "urf-", "usb-", "usb_" or "ar_"
IgnoredLabel(label) ==
    \E prefix \in {<<"n","b","-">>, <<"n","b","_">>, <<"o","f","a","-">>,
                   <<"o","f","a","_">>, <<"u","r","f","-">>, <<"u","s","b","-">>,
                   <<"u","s","b","_">>, <<"a","r","_">>} :
        /\ Len(label) >= Len(prefix)
        /\ SubSeq(label, 1, Len(prefix)) = prefix

---------------------------------------------------------------------------
(* Claims about retry and termination, under Spec and FairSpec *)

\* C18: in a detail crawl the selection step belongs to the attempt: after a
\* navigation that returned it runs in the same attempt, and when it fails
\* the navigation is repeated in the next attempt if fewer than 3 were made,
\* else its error leaves the loop; the loop is left for evaluate only after
\* the selection returned.  The listing crawl has no selection step: its loop
\* is left when the navigation returns, and a failure of evaluate after that
\* is raised with no further attempt.
C18_RetryUnit ==
    /\ [](pc[Listing] # "select")
    /\ [][\A i \in Details :
            /\ (pc[i] = "goto" /\ pc'[i] \notin {"goto", "cancelled", "raise"}) =>
                \/ pc'[i] = "select" /\ attempt'[i] = attempt[i]
                \/ pc'[i] = "goto"
            /\ (pc[i] = "goto" /\ attempt'[i] # attempt[i] /\ pc'[i] = "goto") =>
                attempt'[i] = attempt[i] + 1
            /\ (pc[i] = "select" /\ pc'[i] \notin {"select", "cancelled"}) =>
                \/ pc'[i] = "evaluate"
                \/ /\ attempt[i] < 3
                   /\ pc'[i] = "goto"
                   /\ attempt'[i] = attempt[i] + 1
                \/ /\ attempt[i] = 3
                   /\ pc'[i] = "raise"
                   /\ exc'[i] = Exc(i, 3, "select_option")
            /\ pc'[i] = "evaluate" => pc[i] \in {"select", "evaluate"}
          ]_vars
    /\ [][/\ (pc[Listing] = "goto" /\ pc'[Listing] = "evaluate") => attempt[Listing] \in 1..3
          /\ (pc[Listing] = "evaluate" /\ pc'[Listing] # "evaluate") =>
                /\ pc'[Listing] \in {"close", "raise"}
                /\ attempt'[Listing] = 0
                /\ pc'[Listing] = "raise" => exc'[Listing] = Exc(Listing, 0, "evaluate")
          /\ (pc[Listing] = "raise" /\ pc'[Listing] # "raise") =>
                (pc'[Listing] = "failed" /\ mainPc' = "failed" /\ runError' = exc[Listing])
          ]_vars

\* the selection step of a detail crawl failed in the third attempt, after the
\* navigation of that attempt had returned
C18_Witness ==
    \E i \in Details :
        /\ pc[i] = "raise"
        /\ exc[i] = Exc(i, 3, "select_option")
        /\ HasPage(i)

\* the run is over: main has returned or raised
RunOver == mainPc \in {"done", "failed"}

\* a crawl that waits for the gate stays in the queue or gets a slot
WaitEndsInSlot(i) == pc[i] = "wait" => pc'[i] \in {"wait", "open"}

\* a crawl waits only while crawls that have not ended hold every slot
NoIdleWait == waiters # <<>> => (sem = 0 /\ \E h \in Holding : ~Ended(h))

\* the run ends, every detail crawl that gather started ends, and a run
\* that did not fail handed one pair per crawl to persistence
Terminates ==
    <>(/\ RunOver
       /\ \A i \in Created : Ended(i)
       /\ mainPc = "done" =>
            /\ persisted # <<>>
            /\ Len(persisted[1]) = Cardinality(Created))

\* C19 as stated: every detail crawl gather started gets a slot of the gate
\* (it takes one at once, or waits until it is handed one) and eventually
\* ends, the run eventually ends, with the full result handed to persistence
\* if it did not fail, and no crawl waits while a slot is free or held only
\* by ended crawls.
C19_Progress ==
    /\ [][\A i \in Details : WaitEndsInSlot(i)]_vars
    /\ []NoIdleWait
    /\ Terminates

\* C19 amended: a detail crawl that waits for the gate gets a slot unless the
\* run fails first, in which case it is cancelled in the queue; every detail
\* crawl eventually ends (it returns, raises or is cancelled) and the run
\* eventually ends, with the full result handed to persistence if it did not
\* fail; no crawl waits while a slot is free or held only by ended crawls.
C19_ProgressUnlessFailed ==
    /\ [][\A i \in Details :
            WaitEndsInSlot(i) \/ (mainPc = "failed" /\ pc'[i] = "cancelled")]_vars
    /\ []NoIdleWait
    /\ Terminates

\* three crawls went through a gate of one slot, two of them after waiting
\* for it, and the run handed three pairs to persistence
C19_Witness ==
    /\ Limit = 1
    /\ mainPc = "done"
    /\ \A i \in Details : pc[i] = "done"
    /\ Len(persisted[1]) = 3

\* the run has ended: main has returned or raised and every detail crawl
\* has returned, raised or been cancelled
RunEnded == RunOver /\ \A i \in Created : Ended(i)

=============================================================================
